---- MODULE Spec2Model ----
(***************************************************************************)
(* A model of xauth: the signed login token (createSignedLoginToken in     *)
(* auth.ts, verifyLoginJWT in the JWT verifier), the login handshake of    *)
(* LoginFlow.svelte with its trusted-callback store, and the identity      *)
(* creation / import steps of AuthFlow.svelte with the key store.          *)
(*                                                                         *)
(* Strings are sequences of code units (ASCII codes), byte buffers are     *)
(* sequences of 0..255.  The platform primitives the code calls (atob,     *)
(* btoa, JSON, TextEncoder/TextDecoder, crypto.subtle, IndexedDB, URL) are *)
(* modelled by what they do on the inputs the model draws; the             *)
(* repository's own functions are translated from their source.            *)
(***************************************************************************)
EXTENDS Integers, Sequences, FiniteSets, TLC

(***************************************************************************)
(* Characters and strings                                                  *)
(***************************************************************************)

\* The printable ASCII characters, code 32 (space) to 95 (_) and 97 (a) to
\* 126 (~), in order (a string of the model holds no backquote, code 96).
AsciiLow == " !\"#$%&'()*+,-./0123456789:;<=>?@ABCDEFGHIJKLMNOPQRSTUVWXYZ[\\]^_"

AsciiHigh == "abcdefghijklmnopqrstuvwxyz{|}~"

CodeOf == [c \in {SubSeq(AsciiLow, i, i) : i \in 1..Len(AsciiLow)}
                 \cup {SubSeq(AsciiHigh, i, i) : i \in 1..Len(AsciiHigh)} |->
             IF \E i \in 1..Len(AsciiLow) : SubSeq(AsciiLow, i, i) = c
             THEN 31 + (CHOOSE i \in 1..Len(AsciiLow) : SubSeq(AsciiLow, i, i) = c)
             ELSE 96 + (CHOOSE i \in 1..Len(AsciiHigh) : SubSeq(AsciiHigh, i, i) = c)]

\* A string literal as its sequence of code units.
Str(s) == [i \in 1..Len(s) |-> CodeOf[SubSeq(s, i, i)]]

\* s with every code unit a replaced by b (String.prototype.replace, /a/g).
ReplaceAll(s, a, b) == [i \in 1..Len(s) |-> IF s[i] = a THEN b ELSE s[i]]

\* n copies of the code unit c ('='.repeat(n)).
Repeat(c, n) == [i \in 1..n |-> c]

\* String.prototype.split on a one-character separator: the pieces between
\* the occurrences of sep, in order.
Split(s, sep) ==
    LET seps == {i \in 1..Len(s) : s[i] = sep}
        nth(p) == IF p = 0 THEN 0
                  ELSE IF p > Cardinality(seps) THEN Len(s) + 1
                  ELSE CHOOSE i \in seps : Cardinality({j \in seps : j < i}) = p - 1
    IN  [p \in 1..(Cardinality(seps) + 1) |-> SubSeq(s, nth(p - 1) + 1, nth(p) - 1)]

\* TextEncoder.encode on the ASCII strings of the model: one byte per unit.
TextEncode(s) == s

\* TextDecoder.decode (UTF-8, not fatal): an ASCII byte is its character, a
\* byte that starts no valid sequence becomes U+FFFD.
TextDecode(b) == [i \in 1..Len(b) |-> IF b[i] < 128 THEN b[i] ELSE 65533]

Thrown(e) == [ok |-> FALSE, err |-> e]

(***************************************************************************)
(* Base64: btoa / atob of the platform, and the helpers of auth.ts and of  *)
(* the verifier built on them.                                             *)
(***************************************************************************)

B64Alphabet == Str("ABCDEFGHIJKLMNOPQRSTUVWXYZabcdefghijklmnopqrstuvwxyz0123456789+/")

B64Char(v) == B64Alphabet[v + 1]

B64Value(c) ==
    IF c >= 65 /\ c <= 90 THEN c - 65
    ELSE IF c >= 97 /\ c <= 122 THEN c - 71
    ELSE IF c >= 48 /\ c <= 57 THEN c + 4
    ELSE IF c = 43 THEN 62
    ELSE IF c = 47 THEN 63
    ELSE -1

RECURSIVE btoa(_)
btoa(b) ==
    IF Len(b) = 0 THEN <<>>
    ELSE IF Len(b) = 1 THEN
        <<B64Char(b[1] \div 4), B64Char((b[1] % 4) * 16), 61, 61>>
    ELSE IF Len(b) = 2 THEN
        <<B64Char(b[1] \div 4), B64Char((b[1] % 4) * 16 + b[2] \div 16),
          B64Char((b[2] % 16) * 4), 61>>
    ELSE IF Len(b) = 3 THEN
        <<B64Char(b[1] \div 4), B64Char((b[1] % 4) * 16 + b[2] \div 16),
          B64Char((b[2] % 16) * 4 + b[3] \div 64), B64Char(b[3] % 64)>>
    ELSE \* the two halves, each taken once and then encoded
         CHOOSE encoded \in {btoa(head) \o btoa(tail) :
                                head \in {SubSeq(b, 1, 3 * ((Len(b) + 5) \div 6))},
                                tail \in {SubSeq(b, 3 * ((Len(b) + 5) \div 6) + 1, Len(b))}} :
             TRUE

RECURSIVE StripTrailing(_, _)
StripTrailing(s, c) ==
    IF Len(s) > 0 /\ s[Len(s)] = c THEN StripTrailing(SubSeq(s, 1, Len(s) - 1), c)
    ELSE s

\* The bytes of a run of base64 characters (values known to be >= 0); the
\* bits a final partial group leaves over are discarded.
RECURSIVE B64Groups(_)
B64Groups(s) ==
    IF Len(s) < 2 THEN <<>>
    ELSE IF Len(s) = 2 THEN
        <<B64Value(s[1]) * 4 + B64Value(s[2]) \div 16>>
    ELSE IF Len(s) = 3 THEN
        <<B64Value(s[1]) * 4 + B64Value(s[2]) \div 16,
          (B64Value(s[2]) % 16) * 16 + B64Value(s[3]) \div 4>>
    ELSE IF Len(s) = 4 THEN
        <<B64Value(s[1]) * 4 + B64Value(s[2]) \div 16,
          (B64Value(s[2]) % 16) * 16 + B64Value(s[3]) \div 4,
          (B64Value(s[3]) % 4) * 64 + B64Value(s[4])>>
    ELSE LET half == 4 * ((Len(s) + 7) \div 8)
         IN  B64Groups(SubSeq(s, 1, half)) \o B64Groups(SubSeq(s, half + 1, Len(s)))

\* window.atob (forgiving-base64 decode): ASCII whitespace is removed, one or
\* two trailing '=' are removed when the length is a multiple of 4, and a
\* length of 1 mod 4 or a character outside the alphabet is an error.
atob(s) ==
    LET nows == SelectSeq(s, LAMBDA c : c \notin {9, 10, 12, 13, 32})
        n == Len(nows)
        data == IF n % 4 = 0 /\ n > 0 /\ nows[n] = 61
                THEN IF nows[n - 1] = 61 THEN SubSeq(nows, 1, n - 2)
                     ELSE SubSeq(nows, 1, n - 1)
                ELSE nows
    IN  IF Len(data) % 4 = 1 \/ \E i \in 1..Len(data) : B64Value(data[i]) < 0
        THEN Thrown("InvalidCharacterError")
        ELSE [ok |-> TRUE, val |-> B64Groups(data)]

arrayBufferToBase64(buffer) == btoa(buffer)

arrayBufferToBase64Url(buffer) ==
    StripTrailing(ReplaceAll(ReplaceAll(arrayBufferToBase64(buffer), 43, 45), 47, 95), 61)

stringToBase64Url(str) == arrayBufferToBase64Url(TextEncode(str))

base64UrlToArrayBuffer(base64url) ==
    LET replaced == ReplaceAll(ReplaceAll(base64url, 45, 43), 95, 47)
        padding == Len(replaced) % 4
        base64 == IF padding # 0 THEN replaced \o Repeat(61, 4 - padding)
                  ELSE replaced
    IN  atob(base64)

HexDigits == Str("0123456789abcdef")

RECURSIVE arrayBufferToHex(_)
arrayBufferToHex(buffer) ==
    IF Len(buffer) = 0 THEN <<>>
    ELSE <<HexDigits[(buffer[1] \div 16) + 1], HexDigits[(buffer[1] % 16) + 1]>>
         \o arrayBufferToHex(Tail(buffer))

(***************************************************************************)
(* JSON values, JSON.stringify and JSON.parse.                             *)
(* A value is a record tagged by t: "str" (s: its code units), "num" (the  *)
(* number m * 10^e), "null", "true", "false", "undefined", "arr" (items)   *)
(* or "obj" (members: a sequence of [k, v] in insertion order).            *)
(***************************************************************************)

JStr(s) == [t |-> "str", s |-> s]
JNum(n) == [t |-> "num", m |-> n, e |-> 0]
JNull == [t |-> "null"]
JUndefined == [t |-> "undefined"]
JObj(members) == [t |-> "obj", members |-> members]
Member(k, v) == [k |-> k, v |-> v]

\* The longest mantissa (in decimal digits) the model's integers hold.
MaxDigits == 9

RECURSIVE Pow10(_)
Pow10(n) == IF n = 0 THEN 1 ELSE 10 * Pow10(n - 1)

RECURSIVE NatToStr(_)
NatToStr(n) == IF n < 10 THEN <<48 + n>> ELSE Append(NatToStr(n \div 10), 48 + (n % 10))

RECURSIVE QuoteChars(_)
QuoteChars(s) ==
    IF Len(s) = 0 THEN <<>>
    ELSE IF Len(s) = 1 THEN (IF s[1] \in {34, 92} THEN <<92, s[1]>> ELSE <<s[1]>>)
    ELSE LET half == Len(s) \div 2
         IN  QuoteChars(SubSeq(s, 1, half)) \o QuoteChars(SubSeq(s, half + 1, Len(s)))

\* JSON.stringify of a string without control characters.
QuoteJSON(s) == <<34>> \o QuoteChars(s) \o <<34>>

RECURSIVE JSONstringify(_)
RECURSIVE StringifyMembers(_, _)
RECURSIVE StringifyItems(_, _)
StringifyMembers(ms, first) ==
    IF Len(ms) = 0 THEN <<>>
    ELSE IF ms[1].v.t = "undefined" THEN StringifyMembers(Tail(ms), first)
    ELSE (IF first THEN <<>> ELSE <<44>>)
         \o QuoteJSON(ms[1].k) \o <<58>> \o JSONstringify(ms[1].v)
         \o StringifyMembers(Tail(ms), FALSE)

StringifyItems(items, first) ==
    IF Len(items) = 0 THEN <<>>
    ELSE (IF first THEN <<>> ELSE <<44>>)
         \o (IF items[1].t = "undefined" THEN Str("null") ELSE JSONstringify(items[1]))
         \o StringifyItems(Tail(items), FALSE)

\* JSON.stringify of a string, an integer, a boolean, null, or an object or
\* an array of these.
JSONstringify(v) ==
    IF v.t = "str" THEN QuoteJSON(v.s)
    ELSE IF v.t = "num" THEN
        (IF v.m < 0 THEN <<45>> \o NatToStr(-v.m) ELSE NatToStr(v.m))
    ELSE IF v.t = "obj" THEN <<123>> \o StringifyMembers(v.members, TRUE) \o <<125>>
    ELSE IF v.t = "arr" THEN <<91>> \o StringifyItems(v.items, TRUE) \o <<93>>
    ELSE IF v.t = "true" THEN Str("true")
    ELSE IF v.t = "false" THEN Str("false")
    ELSE Str("null")

SyntaxError == Thrown("SyntaxError")

Parsed(v, pos) == [ok |-> TRUE, val |-> v, pos |-> pos]

IsWs(c) == c \in {32, 9, 10, 13}
IsDigit(c) == c >= 48 /\ c <= 57
HexValue(c) ==
    IF IsDigit(c) THEN c - 48
    ELSE IF c >= 97 /\ c <= 102 THEN c - 87
    ELSE IF c >= 65 /\ c <= 70 THEN c - 55
    ELSE -1

RECURSIVE SkipWs(_, _)
SkipWs(t, i) == IF i <= Len(t) /\ IsWs(t[i]) THEN SkipWs(t, i + 1) ELSE i

RECURSIVE ScanDigits(_, _)
ScanDigits(t, i) == IF i <= Len(t) /\ IsDigit(t[i]) THEN ScanDigits(t, i + 1) ELSE i

\* The value of the decimal digits t[i..j-1].
RECURSIVE DigitsValue(_, _, _)
DigitsValue(t, i, j) ==
    IF i >= j THEN 0 ELSE DigitsValue(t, i, j - 1) * 10 + (t[j - 1] - 48)

\* A JSON number at t[i]: -? (0 | [1-9][0-9]*) (. [0-9]+)? ([eE] [+-]? [0-9]+)?
ParseNumber(t, i) ==
    LET neg == t[i] = 45
        s == IF neg THEN i + 1 ELSE i
        ie == IF s <= Len(t) /\ t[s] = 48 THEN s + 1 ELSE ScanDigits(t, s)
        hasFrac == ie <= Len(t) /\ t[ie] = 46
        fs == ie + 1
        fe == IF hasFrac THEN ScanDigits(t, fs) ELSE ie
        hasExp == fe <= Len(t) /\ t[fe] \in {101, 69}
        es0 == fe + 1
        esign == hasExp /\ es0 <= Len(t) /\ t[es0] \in {43, 45}
        es == IF esign THEN es0 + 1 ELSE es0
        ee == IF hasExp THEN ScanDigits(t, es) ELSE fe
        fracLen == IF hasFrac THEN fe - fs ELSE 0
        mant == DigitsValue(t, s, ie) * Pow10(fracLen)
                + (IF hasFrac THEN DigitsValue(t, fs, fe) ELSE 0)
        expo == IF hasExp
                THEN (IF t[es0] = 45 THEN -1 ELSE 1) * DigitsValue(t, es, ee)
                ELSE 0
    IN  IF ie = s \/ (hasFrac /\ fe = fs) \/ (hasExp /\ ee = es) THEN SyntaxError
        ELSE IF (ie - s) + fracLen > MaxDigits \/ ee - es > MaxDigits
        THEN Thrown("Unsupported")
        ELSE Parsed([t |-> "num", m |-> IF neg THEN -mant ELSE mant,
                     e |-> expo - fracLen], ee)

\* The rest of a JSON string whose opening quote was read; acc is its value
\* so far.
RECURSIVE ScanString(_, _, _)
ScanString(t, i, acc) ==
    IF i > Len(t) THEN SyntaxError
    ELSE IF t[i] = 34 THEN Parsed(JStr(acc), i + 1)
    ELSE IF t[i] < 32 THEN SyntaxError
    ELSE IF t[i] # 92 THEN
        LET stops == {j \in i..Len(t) : t[j] \in {34, 92} \/ t[j] < 32}
            stop == IF stops = {} THEN Len(t) + 1
                    ELSE CHOOSE j \in stops : \A k \in stops : j <= k
        IN  ScanString(t, stop, acc \o SubSeq(t, i, stop - 1))
    ELSE IF i + 1 > Len(t) THEN SyntaxError
    ELSE IF t[i + 1] \in {34, 92, 47} THEN ScanString(t, i + 2, Append(acc, t[i + 1]))
    ELSE IF t[i + 1] = 98 THEN ScanString(t, i + 2, Append(acc, 8))
    ELSE IF t[i + 1] = 102 THEN ScanString(t, i + 2, Append(acc, 12))
    ELSE IF t[i + 1] = 110 THEN ScanString(t, i + 2, Append(acc, 10))
    ELSE IF t[i + 1] = 114 THEN ScanString(t, i + 2, Append(acc, 13))
    ELSE IF t[i + 1] = 116 THEN ScanString(t, i + 2, Append(acc, 9))
    ELSE IF t[i + 1] = 117 /\ i + 5 <= Len(t)
            /\ \A j \in (i + 2)..(i + 5) : HexValue(t[j]) >= 0
    THEN ScanString(t, i + 6,
             Append(acc, HexValue(t[i + 2]) * 4096 + HexValue(t[i + 3]) * 256
                         + HexValue(t[i + 4]) * 16 + HexValue(t[i + 5])))
    ELSE SyntaxError

StartsWith(t, i, w) == i + Len(w) - 1 <= Len(t) /\ SubSeq(t, i, i + Len(w) - 1) = w

RECURSIVE ParseValue(_, _)
RECURSIVE ParseMembers(_, _, _)
RECURSIVE ParseItems(_, _, _)

\* An object whose members up to t[n - 1] are read: its end, or a comma and
\* the next member.
MemberRead(t, n, all) ==
    IF n > Len(t) THEN SyntaxError
    ELSE IF t[n] = 125 THEN Parsed(JObj(all), n + 1)
    ELSE IF t[n] = 44 THEN ParseMembers(t, SkipWs(t, n + 1), all)
    ELSE SyntaxError

MemberValueRead(t, acc, key, val) ==
    IF ~val.ok THEN val
    ELSE MemberRead(t, SkipWs(t, val.pos), Append(acc, Member(key, val.val)))

\* The colon at t[c] and the value of the member after it.
MemberColonRead(t, acc, key, c) ==
    IF c > Len(t) \/ t[c] # 58 THEN SyntaxError
    ELSE MemberValueRead(t, acc, key, ParseValue(t, SkipWs(t, c + 1)))

MemberKeyRead(t, acc, key) ==
    IF ~key.ok THEN key
    ELSE MemberColonRead(t, acc, key.val.s, SkipWs(t, key.pos))

\* The members of an object from the key at t[i] on; acc holds those read.
ParseMembers(t, i, acc) ==
    IF i > Len(t) \/ t[i] # 34 THEN SyntaxError
    ELSE MemberKeyRead(t, acc, ScanString(t, i + 1, <<>>))

\* An array whose items up to t[n - 1] are read: its end, or a comma and the
\* next item.
ItemRead(t, n, all) ==
    IF n > Len(t) THEN SyntaxError
    ELSE IF t[n] = 93 THEN Parsed([t |-> "arr", items |-> all], n + 1)
    ELSE IF t[n] = 44 THEN ParseItems(t, SkipWs(t, n + 1), all)
    ELSE SyntaxError

ItemValueRead(t, acc, val) ==
    IF ~val.ok THEN val
    ELSE ItemRead(t, SkipWs(t, val.pos), Append(acc, val.val))

\* The items of an array from the value at t[i] on; acc holds those read.
ParseItems(t, i, acc) == ItemValueRead(t, acc, ParseValue(t, i))

\* An object whose opening brace is read, j the place after the whitespace
\* that follows it.
ObjectOpened(t, j) ==
    IF j <= Len(t) /\ t[j] = 125 THEN Parsed(JObj(<<>>), j + 1)
    ELSE ParseMembers(t, j, <<>>)

ArrayOpened(t, j) ==
    IF j <= Len(t) /\ t[j] = 93 THEN Parsed([t |-> "arr", items |-> <<>>], j + 1)
    ELSE ParseItems(t, j, <<>>)

\* The JSON value that starts at t[i] (whitespace already skipped).
ParseValue(t, i) ==
    IF i > Len(t) THEN SyntaxError
    ELSE IF t[i] = 34 THEN ScanString(t, i + 1, <<>>)
    ELSE IF t[i] = 45 \/ IsDigit(t[i]) THEN ParseNumber(t, i)
    ELSE IF StartsWith(t, i, Str("true")) THEN Parsed([t |-> "true"], i + 4)
    ELSE IF StartsWith(t, i, Str("false")) THEN Parsed([t |-> "false"], i + 5)
    ELSE IF StartsWith(t, i, Str("null")) THEN Parsed(JNull, i + 4)
    ELSE IF t[i] = 123 THEN ObjectOpened(t, SkipWs(t, i + 1))
    ELSE IF t[i] = 91 THEN ArrayOpened(t, SkipWs(t, i + 1))
    ELSE SyntaxError

ValueRead(text, v) ==
    IF ~v.ok THEN v
    ELSE IF SkipWs(text, v.pos) # Len(text) + 1 THEN SyntaxError
    ELSE [ok |-> TRUE, val |-> v.val]

\* JSON.parse: one value, with nothing but whitespace around it.
JSONparse(text) == ValueRead(text, ParseValue(text, SkipWs(text, 1)))

\* v[key] of JavaScript for a value that is not null: the last member of that
\* name of an object, undefined otherwise.
Prop(v, key) ==
    IF v.t = "obj" /\ \E i \in 1..Len(v.members) : v.members[i].k = key
    THEN v.members[CHOOSE i \in 1..Len(v.members) :
                       /\ v.members[i].k = key
                       /\ \A j \in (i + 1)..Len(v.members) : v.members[j].k # key].v
    ELSE JUndefined

(***************************************************************************)
(* Keys and the crypto engine (crypto.subtle), assumed correct: a          *)
(* signature by the private key of pair k over data verifies under the     *)
(* public key of pair k over the same data, and under nothing else.        *)
(***************************************************************************)

PrivateKey(k, extractable, usages) ==
    [type |-> "private", pair |-> k, extractable |-> extractable, usages |-> usages]

PublicKey(k) ==
    [type |-> "public", pair |-> k, extractable |-> TRUE, usages |-> {"verify"}]

\* crypto.subtle.sign, ECDSA with SHA-384.
subtleSign(key, data) ==
    IF key.type = "private" /\ "sign" \in key.usages
    THEN [ok |-> TRUE, val |-> <<key.pair>> \o data]
    ELSE Thrown("InvalidAccessError")

\* crypto.subtle.verify, ECDSA with SHA-384.
subtleVerify(key, signature, data) ==
    IF key.type = "public" /\ "verify" \in key.usages
    THEN [ok |-> TRUE, val |-> signature = <<key.pair>> \o data]
    ELSE Thrown("InvalidAccessError")

\* crypto.subtle.exportKey('spki', key) followed by digest('SHA-256', .):
\* one digest per key pair.
subtleSpkiDigest(key) ==
    IF key.type = "public" /\ key.extractable
    THEN [ok |-> TRUE, val |-> <<key.pair>>]
    ELSE Thrown("InvalidAccessError")

getPublicKeyDigest(publicKey) ==
    LET digestBuffer == subtleSpkiDigest(publicKey)
    IN  IF ~digestBuffer.ok THEN digestBuffer
        ELSE [ok |-> TRUE, val |-> arrayBufferToHex(digestBuffer.val)]

(***************************************************************************)
(* The login token                                                         *)
(***************************************************************************)

TokenLifetime == 24 * 60 * 60

JwtHeader(alg, typ) == JObj(<<Member(Str("alg"), alg), Member(Str("typ"), typ)>>)

\* The token of header and payload (JSON values) signed with privateKey:
\* base64url(header).base64url(payload).base64url(signature), the signature
\* over the first two segments and the dot between them.
SignToken(privateKey, header, payload) ==
    LET encodedHeader == stringToBase64Url(JSONstringify(header))
        encodedPayload == stringToBase64Url(JSONstringify(payload))
        signingInput == encodedHeader \o <<46>> \o encodedPayload
        signatureBuffer == subtleSign(privateKey, TextEncode(signingInput))
    IN  IF ~signatureBuffer.ok THEN signatureBuffer
        ELSE [ok |-> TRUE,
              val |-> signingInput \o <<46>> \o arrayBufferToBase64Url(signatureBuffer.val)]

\* An issuer whose tokens live for an hour, not a day.
LoginTokenPayload_OneHour(publicKeyDigest, callbackUrl, customPayloadData, nowSeconds) ==
    JObj(<<Member(Str("iss"), JStr(publicKeyDigest)),
           Member(Str("sub"), JStr(callbackUrl)),
           Member(Str("exp"), JNum(nowSeconds + (60 * 60))),
           Member(Str("iat"), JNum(nowSeconds))>>)

\* The payload object of createSignedLoginToken.  customPayloadData is a
\* string; the empty string stands for null and undefined as well (all three
\* are falsy).
LoginTokenPayload(publicKeyDigest, callbackUrl, customPayloadData, nowSeconds) ==
    LET expirySeconds == nowSeconds + TokenLifetime
    IN  JObj(<<Member(Str("iss"), JStr(publicKeyDigest)),
               Member(Str("sub"), JStr(callbackUrl)),
               Member(Str("exp"), JNum(expirySeconds)),
               Member(Str("iat"), JNum(nowSeconds))>>
             \o (IF Len(customPayloadData) > 0
                 THEN <<Member(Str("cstm_dat"), JStr(customPayloadData))>>
                 ELSE <<>>))

createSignedLoginToken(privateKey, publicKey, callbackUrl, customPayloadData, nowSeconds) ==
    LET publicKeyDigest == getPublicKeyDigest(publicKey)
        header == JwtHeader(JStr(Str("ES384")), JStr(Str("JWT")))
    IN  IF ~publicKeyDigest.ok THEN publicKeyDigest
        ELSE SignToken(privateKey, header,
                       LoginTokenPayload(publicKeyDigest.val, callbackUrl,
                                         customPayloadData, nowSeconds))

\* m * 10^e <= n for a parsed number and an integer n >= 0.
NumLe(v, n) ==
    IF v.m <= 0 THEN TRUE
    ELSE IF v.e = 0 THEN v.m <= n
    ELSE IF v.e > 0 THEN (IF v.e > MaxDigits THEN FALSE ELSE v.m <= n \div Pow10(v.e))
    ELSE IF -v.e > MaxDigits THEN n >= 1
    ELSE ((v.m + Pow10(-v.e) - 1) \div Pow10(-v.e)) <= n

\* v <= n of JavaScript for an integer n >= 0: "TRUE", "FALSE", or
\* "Unsupported" for the operands whose conversion to a number the model
\* does not carry out (objects, arrays, strings that mix digits with signs,
\* points, exponents or radix prefixes).
LeJS(v, n) ==
    LET b(x) == IF x THEN "TRUE" ELSE "FALSE"
    IN  IF v.t = "undefined" THEN "FALSE"
        ELSE IF v.t \in {"null", "false"} THEN b(0 <= n)
        ELSE IF v.t = "true" THEN b(1 <= n)
        ELSE IF v.t = "num" THEN b(NumLe(v, n))
        ELSE IF v.t = "str" THEN
            IF \A i \in 1..Len(v.s) : v.s[i] \in {9, 10, 11, 12, 13, 32} THEN b(0 <= n)
            ELSE IF \A i \in 1..Len(v.s) : IsDigit(v.s[i]) THEN
                (IF Len(v.s) > MaxDigits THEN "Unsupported"
                 ELSE b(DigitsValue(v.s, 1, Len(v.s) + 1) <= n))
            ELSE IF \A i \in 1..Len(v.s) : ~IsDigit(v.s[i]) /\ v.s[i] # 73 THEN "FALSE"
            ELSE "Unsupported"
        ELSE "Unsupported"

\* parts.length !== 3 does not hold.
HasThreeParts(parts) == Len(parts) = 3

\* A verifier that looks at alg only.
HeaderAccepted_AlgOnly(header) == Prop(header, Str("alg")) = JStr(Str("ES384"))

\* header.alg !== "ES384" || header.typ !== "JWT" does not hold.
HeaderAccepted(header) ==
    /\ Prop(header, Str("alg")) = JStr(Str("ES384"))
    /\ Prop(header, Str("typ")) = JStr(Str("JWT"))

\* A verifier that compares with < where the code compares with <=.
ExpiryCheck_Strict(payload, nowSeconds) == LeJS(Prop(payload, Str("exp")), nowSeconds - 1)

\* payload.exp <= nowSeconds
ExpiryCheck(payload, nowSeconds) == LeJS(Prop(payload, Str("exp")), nowSeconds)

\* A verifier that checks the signature against the re-encoded payload bytes.
DataToVerify_Reencoded(encodedHeader, encodedPayload) ==
    encodedHeader \o <<46>>
        \o arrayBufferToBase64Url(base64UrlToArrayBuffer(encodedPayload).val)

\* `${encodedHeader}.${encodedPayload}`
DataToVerify(encodedHeader, encodedPayload) == encodedHeader \o <<46>> \o encodedPayload

\* The outcome of verifyLoginJWT at the time nowSeconds: the payload, or the
\* error thrown; sigCalls counts the calls of crypto.subtle.verify.
Rejected(e, n) == [ok |-> FALSE, err |-> e, sigCalls |-> n]

\* verifyLoginJWT is a chain of steps, each of which ends the call with an
\* error or hands what it has computed to the next one; the steps are
\* written last one first.

\* A verifier that accepts a token only for one callback URL.
SignatureChecked_Audience(payload, isValidSignature) ==
    IF ~isValidSignature.ok THEN Rejected(isValidSignature.err, 1)
    ELSE IF ~isValidSignature.val THEN Rejected("SignatureFailed", 1)
    ELSE IF Prop(payload, Str("sub")) # JStr(Str("https://b/"))
    THEN Rejected("AudienceMismatch", 1)
    ELSE [ok |-> TRUE, payload |-> payload, sigCalls |-> 1]

\* if (!isValidSignature) throw ...; return payload
SignatureChecked(payload, isValidSignature) ==
    IF ~isValidSignature.ok THEN Rejected(isValidSignature.err, 1)
    ELSE IF ~isValidSignature.val THEN Rejected("SignatureFailed", 1)
    ELSE [ok |-> TRUE, payload |-> payload, sigCalls |-> 1]

\* crypto.subtle.verify over the first two segments as they were received.
SignatureDecoded(parts, payload, signatureData, publicKey) ==
    IF ~signatureData.ok THEN Rejected(signatureData.err, 0)
    ELSE SignatureChecked(payload,
                          subtleVerify(publicKey, signatureData.val,
                                       TextEncode(DataToVerify(parts[1], parts[2]))))

\* if (payload.exp <= nowSeconds) throw ...
ExpiryChecked(parts, payload, expired, publicKey) ==
    IF expired = "Unsupported" THEN Rejected("Unsupported", 0)
    ELSE IF expired = "TRUE" THEN Rejected("TokenExpired", 0)
    ELSE SignatureDecoded(parts, payload, base64UrlToArrayBuffer(parts[3]), publicKey)

\* payload = JSON.parse(...); reading payload.exp of null is a TypeError.
PayloadParsed(parts, payload, publicKey, nowSeconds) ==
    IF ~payload.ok THEN Rejected(payload.err, 0)
    ELSE IF payload.val.t = "null" THEN Rejected("TypeError", 0)
    ELSE ExpiryChecked(parts, payload.val, ExpiryCheck(payload.val, nowSeconds), publicKey)

PayloadDecoded(parts, payloadBytes, publicKey, nowSeconds) ==
    IF ~payloadBytes.ok THEN Rejected(payloadBytes.err, 0)
    ELSE PayloadParsed(parts, JSONparse(TextDecode(payloadBytes.val)), publicKey, nowSeconds)

\* header = JSON.parse(...); reading header.alg of null is a TypeError.
HeaderParsed(parts, header, publicKey, nowSeconds) ==
    IF ~header.ok THEN Rejected(header.err, 0)
    ELSE IF header.val.t = "null" THEN Rejected("TypeError", 0)
    ELSE IF ~HeaderAccepted(header.val) THEN Rejected("InvalidHeader", 0)
    ELSE PayloadDecoded(parts, base64UrlToArrayBuffer(parts[2]), publicKey, nowSeconds)

HeaderDecoded(parts, headerBytes, publicKey, nowSeconds) ==
    IF ~headerBytes.ok THEN Rejected(headerBytes.err, 0)
    ELSE HeaderParsed(parts, JSONparse(TextDecode(headerBytes.val)), publicKey, nowSeconds)

\* const [encodedHeader, encodedPayload, encodedSignature] = parts
TokenSplit(parts, publicKey, nowSeconds) ==
    IF ~HasThreeParts(parts) THEN Rejected("NotThreeParts", 0)
    ELSE HeaderDecoded(parts, base64UrlToArrayBuffer(parts[1]), publicKey, nowSeconds)

verifyLoginJWT(jwtString, publicKey, nowSeconds) ==
    TokenSplit(Split(jwtString, 46), publicKey, nowSeconds)

(***************************************************************************)
(* State                                                                   *)
(***************************************************************************)

VARIABLES
    now,        \* the clock, Math.floor(Date.now() / 1000)
    jwt,        \* the token string handed to the verifier
    meta,       \* how jwt was made (history: the verifier never reads it)
    call,       \* the last call of verifyLoginJWT and its outcome
    accepted,   \* how many calls have accepted jwt so far (history)
    location,   \* window.location of the identity app: protocol and host
    idb,        \* IndexedDB: the CryptoKeys and the TrustedCallbacks store
    loginFlow,  \* the state of the LoginFlow component and of its handlers
    redirected, \* the URL window.location.replace was called with, if any
    authFlow,   \* the state of the AuthFlow component and of its handlers
    camera,     \* getUserMedia calls not settled, live streams, scheduled frames
    installs,   \* what the handlers of AuthFlow wrote to the key store (history)
    page,       \* the page initializeAuthFlow of auth.ts drives, and its handlers
    backup,     \* a key, its wrapped form and what unwrapping it gave
    trustLog,   \* the saves and lookups made on the trusted-callback store (history)
    app,        \* the App component: the address it was opened at and its view
    lab         \* a call of a function of auth.ts: its arguments and its result

verifyVars == <<now, jwt, meta, call, accepted>>

loginVars == <<location, redirected, loginFlow>>

authVars == <<authFlow, camera, installs>>

otherVars == <<page, backup, trustLog, app, lab>>

vars == <<verifyVars, idb, loginVars, authVars, otherVars>>

(***************************************************************************)
(* Bounds and the values the model draws its inputs from                   *)
(***************************************************************************)

NumKeyPairs == 2
MaxClock == 0
MaxVerify == 2

KeyPairs == 1..NumKeyPairs

\* The moments of the model: the first seconds, and the seconds around the
\* expiry of a token issued then.
Times == (0..MaxClock) \cup ((TokenLifetime - 1)..(TokenLifetime + MaxClock))

CallbackUrls == {Str("https://b/"), Str("https://b/x")}

CustomData == {<<>>, Str("d\"1")}

\* The addresses the application is served from.
AppLocations == {[protocol |-> Str("https:"), host |-> Str("a")],
                 [protocol |-> Str("http:"), host |-> Str("a")]}

\* The values of the callback parameter: none, a relative URL, two URLs of
\* the application's own host, an http URL, and https URLs of other hosts.
RawCallbackParams ==
    {<<>>, Str("b/cb"), Str("https://a/cb"), Str("HTTPS://A:443"), Str("http://b/cb"),
     Str("https://b/cb"), Str("https://B/cb"), Str("https://b/other"), Str("https://c")}

\* The characters a byte of the payload segment is changed to: a letter
\* ('R'), a digit ('1'), '-', and characters outside the base64url alphabet
\* ('.', '!', '=').
TamperChars == {82, 49, 45, 46, 33, 61}

OperationalKey(k) == PrivateKey(k, FALSE, {"sign"})

NoMeta == [kind |-> "none", nseg |-> 0, header |-> "none", payload |-> "none",
           exp |-> JUndefined, sig |-> "none", signer |-> 0,
           url |-> <<>>, custom |-> <<>>, iat |-> 0]

NoCall == [made |-> FALSE, key |-> 0, at |-> 0, out |-> Rejected("none", 0)]

(***************************************************************************)
(* Tokens a caller can hand to the verifier                                *)
(***************************************************************************)

HeaderKinds == {"good", "alg", "typ", "json", "b64", "null"}

EncodedHeaderOf(kind) ==
    CASE kind = "good" ->
            stringToBase64Url(JSONstringify(JwtHeader(JStr(Str("ES384")), JStr(Str("JWT")))))
      [] kind = "alg" ->
            stringToBase64Url(JSONstringify(JwtHeader(JStr(Str("HS256")), JStr(Str("JWT")))))
      [] kind = "typ" ->
            stringToBase64Url(JSONstringify(JwtHeader(JStr(Str("ES384")), JStr(Str("JOSE")))))
      [] kind = "json" -> stringToBase64Url(Str("{\"alg\""))
      [] kind = "b64" -> Str("e!J9")
      [] kind = "null" -> stringToBase64Url(Str("null"))

PayloadKinds == {"object", "json", "b64"}

\* The values of exp a forged payload carries at the time t: none, a text,
\* and the seconds around t.
ExpValues(t) ==
    {JUndefined, JStr(Str("never"))}
        \cup {JNum(e) : e \in {t - 1, t, t + 1} \cap Nat}

EncodedPayloadOf(kind, url, exp, iat) ==
    CASE kind = "object" ->
            stringToBase64Url(JSONstringify(
                JObj(<<Member(Str("sub"), JStr(url)),
                       Member(Str("exp"), exp),
                       Member(Str("iat"), JNum(iat))>>)))
      [] kind = "json" -> stringToBase64Url(Str("{\"sub\":"))
      [] kind = "b64" -> Str("e!J9")

SigKinds == {"key", "b64", "garbage"}

EncodedSignatureOf(kind, k, data) ==
    CASE kind = "key" -> arrayBufferToBase64Url(subtleSign(OperationalKey(k), data).val)
      [] kind = "b64" -> Str("!!!!")
      [] kind = "garbage" -> Str("AAAA")

ForgedToken(nseg, hk, pk, url, exp, iat, sk, k) ==
    LET h == EncodedHeaderOf(hk)
        p == EncodedPayloadOf(pk, url, exp, iat)
        g == EncodedSignatureOf(sk, k, TextEncode(DataToVerify(h, p)))
    IN  CASE nseg = 2 -> h \o <<46>> \o p
          [] nseg = 3 -> h \o <<46>> \o p \o <<46>> \o g
          [] nseg = 4 -> h \o <<46>> \o p \o <<46>> \o g \o <<46>> \o g

\* The positions of the payload segment in a token of three segments.
PayloadPositions(token) ==
    LET dots == {i \in 1..Len(token) : token[i] = 46}
        first == CHOOSE i \in dots : \A j \in dots : i <= j
        second == CHOOSE i \in dots \ {first} : \A j \in dots \ {first} : i <= j
    IN  (first + 1)..(second - 1)

(***************************************************************************)
(* The verifier and its callers                                            *)
(***************************************************************************)

\* The identity app issues a token for a callback URL.
IssueToken ==
    /\ meta.kind = "none"
    /\ now <= MaxClock
    /\ \E k \in KeyPairs, url \in CallbackUrls, data \in CustomData :
        LET token == createSignedLoginToken(OperationalKey(k), PublicKey(k), url, data, now)
        IN  /\ token.ok
            /\ jwt' = token.val
            /\ meta' = [kind |-> "issued", nseg |-> 3, header |-> "good",
                        payload |-> "object", exp |-> JNum(now + TokenLifetime),
                        sig |-> "key", signer |-> k,
                        url |-> url, custom |-> data, iat |-> now]
    /\ call' = NoCall
    /\ accepted' = 0
    /\ UNCHANGED <<now, idb, loginVars, authVars, otherVars>>

\* Somebody builds a token by hand.
ForgeToken ==
    /\ meta.kind = "none"
    /\ \E nseg \in {2, 3, 4}, hk \in HeaderKinds, pk \in PayloadKinds,
          exp \in ExpValues(now), sk \in SigKinds, k \in KeyPairs :
        /\ pk # "object" => exp = JUndefined
        /\ sk # "key" => k = 1
        /\ jwt' = ForgedToken(nseg, hk, pk, Str("https://b/"), exp, now, sk, k)
        /\ meta' = [kind |-> "forged", nseg |-> nseg, header |-> hk,
                    payload |-> pk, exp |-> exp, sig |-> sk,
                    signer |-> IF sk = "key" THEN k ELSE 0,
                    url |-> Str("https://b/"), custom |-> <<>>, iat |-> now]
    /\ call' = NoCall
    /\ accepted' = 0
    /\ UNCHANGED <<now, idb, loginVars, authVars, otherVars>>

\* Somebody changes one byte of the payload segment of an issued token.
TamperPayload ==
    /\ meta.kind = "issued"
    /\ \E i \in PayloadPositions(jwt), c \in TamperChars :
        /\ c # jwt[i]
        /\ jwt' = [jwt EXCEPT ![i] = c]
    /\ meta' = [meta EXCEPT !.kind = "tampered"]
    /\ call' = NoCall
    /\ accepted' = 0
    /\ UNCHANGED <<now, idb, loginVars, authVars, otherVars>>

\* The caller of key k has the outcome of its call.
Returned(k, out) ==
    /\ call' = [made |-> TRUE, key |-> k, at |-> now, out |-> out]
    /\ accepted' = IF out.ok THEN accepted + 1 ELSE accepted

\* A verifier that remembers the tokens it accepted and refuses them afterwards.
Verify_Once(k) ==
    /\ meta.kind # "none"
    /\ accepted < MaxVerify
    /\ Returned(k, IF accepted > 0 THEN Rejected("Replayed", 0)
                   ELSE verifyLoginJWT(jwt, PublicKey(k), now))
    /\ UNCHANGED <<now, jwt, meta, idb, loginVars, authVars, otherVars>>

\* A relying party calls verifyLoginJWT(jwt, publicKey).
Verify(k) ==
    /\ meta.kind # "none"
    /\ accepted < MaxVerify
    /\ Returned(k, verifyLoginJWT(jwt, PublicKey(k), now))
    /\ UNCHANGED <<now, jwt, meta, idb, loginVars, authVars, otherVars>>

\* Time passes; the caller has taken the outcome of its last call.
Tick ==
    /\ \E t \in Times : t > now /\ now' = t
    /\ call' = NoCall
    /\ UNCHANGED <<jwt, meta, accepted, idb, loginVars, authVars, otherVars>>

(***************************************************************************)
(* URLs: new URL(input) of the platform, for absolute http(s) URLs of the  *)
(* form scheme://host[:port][/path][?query][#fragment] without userinfo,   *)
(* and for URLs of other schemes (kept as written after the scheme)        *)
(***************************************************************************)

Null == [type |-> "null"]

Undefined == [type |-> "undefined"]

Lower(c) == IF c \in 65..90 THEN c + 32 ELSE c

ToLower(s) == [i \in 1..Len(s) |-> Lower(s[i])]

IsAlpha(c) == Lower(c) \in 97..122

\* The first position from `from` on whose character is in chars (or, with
\* FirstOutside, is not), Len(s) + 1 if there is none.
FirstInside(s, from, chars) ==
    LET hits == {i \in from..Len(s) : s[i] \in chars}
    IN  IF hits = {} THEN Len(s) + 1 ELSE CHOOSE i \in hits : \A j \in hits : i <= j

FirstOutside(s, from, chars) ==
    LET hits == {i \in from..Len(s) : s[i] \notin chars}
    IN  IF hits = {} THEN Len(s) + 1 ELSE CHOOSE i \in hits : \A j \in hits : i <= j

URLRecord(protocol, host, href) ==
    [type |-> "URL", protocol |-> protocol, host |-> host, href |-> href]

ParseURL(input) ==
    LET n == Len(input)
        colon == FirstInside(input, 1, {58})
    IN  IF \/ colon > n
           \/ colon = 1
           \/ ~IsAlpha(input[1])
           \/ \E i \in 2..(colon - 1) :
                ~(IsAlpha(input[i]) \/ IsDigit(input[i]) \/ input[i] \in {43, 45, 46})
        THEN Thrown("TypeError")
        ELSE
        LET scheme == ToLower(SubSeq(input, 1, colon - 1))
        IN  IF scheme \notin {Str("http"), Str("https")}
            THEN [ok |-> TRUE,
                  val |-> URLRecord(scheme \o <<58>>, <<>>,
                                    scheme \o <<58>> \o SubSeq(input, colon + 1, n))]
            ELSE
            LET start == FirstOutside(input, colon + 1, {47, 92})
                stop == FirstInside(input, start, {47, 92, 63, 35})
                authority == ToLower(SubSeq(input, start, stop - 1))
                portAt == FirstInside(authority, 1, {58})
                hostname == SubSeq(authority, 1, portAt - 1)
                port == SubSeq(authority, portAt + 1, Len(authority))
                defaultPort == IF scheme = Str("https") THEN Str("443") ELSE Str("80")
                host == IF port = <<>> \/ port = defaultPort THEN hostname
                        ELSE hostname \o <<58>> \o port
                rest == SubSeq(input, stop, n)
                path == IF rest = <<>> \/ rest[1] \in {63, 35} THEN <<47>> \o rest
                        ELSE <<47>> \o SubSeq(rest, 2, Len(rest))
            IN  IF \E i \in 1..Len(authority) : authority[i] = 64
                THEN Thrown("Unsupported")
                ELSE IF \/ hostname = <<>>
                        \/ \E i \in 1..Len(hostname) :
                            hostname[i] \in {32, 60, 62, 91, 93, 94, 124, 37}
                        \/ \E i \in 1..Len(port) : ~IsDigit(port[i])
                THEN Thrown("TypeError")
                ELSE [ok |-> TRUE,
                      val |-> URLRecord(scheme \o <<58>>, host,
                                        scheme \o Str("://") \o host \o path)]

(***************************************************************************)
(* IndexedDB (indexedDB.ts): the CryptoKeys store, keyed by key name, and  *)
(* the TrustedCallbacks store, keyed by URL with the value true.  A        *)
(* request that succeeds has read or written the store; one that fails     *)
(* rejects the promise and leaves the store as it was.                     *)
(***************************************************************************)

PRIVATE_KEY_NAME == "userPrivateKey"

PUBLIC_KEY_NAME == "userPublicKey"

EmptyKeys == [n \in {PRIVATE_KEY_NAME, PUBLIC_KEY_NAME} |-> Undefined]

KeysOf(k) == [n \in {PRIVATE_KEY_NAME, PUBLIC_KEY_NAME} |->
                IF n = PRIVATE_KEY_NAME THEN OperationalKey(k) ELSE PublicKey(k)]

saveKey(db, key, keyName) == [db EXCEPT !.keys[keyName] = key]

loadKey(db, keyName) == db.keys[keyName]

\* A store that keeps one trusted URL, the last one saved.
saveTrustedCallbackUrl_Replace(db, url) == [db EXCEPT !.trusted = {url}]

\* A save that takes back the trust when the URL is saved again.
saveTrustedCallbackUrl_Toggle(db, url) ==
    [db EXCEPT !.trusted = IF url \in @ THEN @ \ {url} ELSE @ \cup {url}]

saveTrustedCallbackUrl(db, url) == [db EXCEPT !.trusted = @ \cup {url}]

\* A verdict that takes the host for the URL.
isCallbackUrlTrusted_ByHost(db, url) ==
    \E t \in db.trusted : ParseURL(t).val.host = ParseURL(url).val.host

isCallbackUrlTrusted(db, url) == url \in db.trusted

\* !value of JavaScript for the values a key variable holds.
Missing(value) == value.type \in {"undefined", "null"}

(***************************************************************************)
(* The token and the public key LoginFlow sends to the callback            *)
(***************************************************************************)

\* issue(signingKey, callbackUrl, customData) of the login token service:
\* the payload is {sub, iat, exp, cstm_dat?}, without iss.
issue(signingKey, callbackUrl, customData, nowSeconds) ==
    SignToken(signingKey,
              JwtHeader(JStr(Str("ES384")), JStr(Str("JWT"))),
              JObj(<<Member(Str("sub"), JStr(callbackUrl)),
                     Member(Str("iat"), JNum(nowSeconds)),
                     Member(Str("exp"), JNum(nowSeconds + TokenLifetime))>>
                   \o (IF Len(customData) > 0
                       THEN <<Member(Str("cstm_dat"), JStr(customData))>>
                       ELSE <<>>)))

\* crypto.subtle.exportKey('spki', key): a DER SEQUENCE that holds the
\* public point of the pair.
subtleExportSpki(key) ==
    IF key.type = "public" /\ key.extractable
    THEN [ok |-> TRUE, val |-> <<48, 118, key.pair>>]
    ELSE Thrown("InvalidAccessError")

exportPublicKeyToSpkiBase64Url(publicKey) ==
    LET spki == subtleExportSpki(publicKey)
    IN  IF ~spki.ok THEN spki
        ELSE [ok |-> TRUE, val |-> arrayBufferToBase64Url(spki.val)]

(***************************************************************************)
(* LoginFlow.svelte                                                        *)
(***************************************************************************)

\* The component as constructed, before onMount has run.  pc is the place
\* where a handler of the component waits ("idle": none is running);
\* effects lists what this page load has done to the stores and the
\* browser (history).
MountedLoginFlow(rawCallbackParam, loginPayloadData) ==
    [rawCallbackParam |-> rawCallbackParam,
     loginPayloadData |-> loginPayloadData,
     currentStep |-> "loading",
     errorMessage |-> "null",
     parsedCallbackUrl |-> Null,
     pc |-> "onMount",
     privateKey |-> Undefined,
     publicKey |-> Undefined,
     jwtToken |-> <<>>,
     effects |-> {}]

NoRedirect == [type |-> "none", base |-> <<>>, jwt |-> <<>>, pubKey |-> <<>>]

\* A callback check that does not compare the hosts.
CallbackError_NoLoopGuard(rawCallbackParam, loc) ==
    IF Len(rawCallbackParam) = 0 THEN "MissingCallback"
    ELSE LET parsed == ParseURL(rawCallbackParam)
         IN  IF ~parsed.ok THEN "InvalidFormat"
             ELSE IF loc.protocol = Str("https:") /\ parsed.val.protocol # Str("https:")
             THEN "InsecureCallback"
             ELSE "none"

\* The checks of onMount on the callback parameter: the message that is
\* shown, "none" if the parameter passes.
CallbackError(rawCallbackParam, loc) ==
    IF Len(rawCallbackParam) = 0 THEN "MissingCallback"
    ELSE LET parsed == ParseURL(rawCallbackParam)
         IN  IF ~parsed.ok THEN "InvalidFormat"
             ELSE IF parsed.val.host = loc.host THEN "SameHost"
             ELSE IF loc.protocol = Str("https:") /\ parsed.val.protocol # Str("https:")
             THEN "InsecureCallback"
             ELSE "none"

\* ParseURL and the checks of onMount for each callback parameter and each
\* address of the application, computed once.
CallbackChecks ==
    [raw \in RawCallbackParams, loc \in AppLocations |->
        [message |-> CallbackError(raw, loc), parsed |-> ParseURL(raw)]]

\* The href of each callback parameter that passes the checks of onMount.
CallbackHrefs ==
    {Str("http://b/cb"), Str("https://b/cb"), Str("https://b/other"), Str("https://c/")}

\* The tokens of the login page, loaded at second 0, for each stored key,
\* callback and custom data, computed once.
IssuedTokens ==
    [signingKey \in {OperationalKey(k) : k \in KeyPairs}, callbackUrl \in CallbackHrefs,
     customData \in CustomData, nowSeconds \in {0} |->
        issue(signingKey, callbackUrl, customData, nowSeconds)]

\* What proceedWithLogin makes of each stored public key and of each callback
\* for the redirect, computed once.
ExportedPublicKeys ==
    [publicKey \in {PublicKey(k) : k \in KeyPairs} |->
        exportPublicKeyToSpkiBase64Url(publicKey)]

RedirectUrls == [callbackUrl \in CallbackHrefs |-> ParseURL(callbackUrl)]

\* A failure after which the handler goes on to load the keys.
Failed_GoesOn(lf, message) ==
    [lf EXCEPT !.errorMessage = message, !.currentStep = "error",
               !.pc = "mount:loadPrivate"]

Failed(lf, message) ==
    [lf EXCEPT !.errorMessage = message, !.currentStep = "error", !.pc = "idle"]

Did(lf, effect) == [lf EXCEPT !.effects = @ \cup {effect}]

\* The synchronous start of proceedWithLogin, up to the call of
\* createSignedLoginToken.
proceedWithLogin(lf, privateKey, publicKey) ==
    [lf EXCEPT !.currentStep = "processingLogin",
               !.errorMessage = "null",
               !.privateKey = privateKey,
               !.publicKey = publicKey,
               !.pc = "proceed:sign"]

LoginUnchanged == UNCHANGED <<verifyVars, location, authVars, otherVars>>

\* onMount, up to the first loadKey.
LoginOnMount ==
    /\ loginFlow.pc = "onMount"
    /\ LET message == CallbackChecks[loginFlow.rawCallbackParam, location].message
           parsed == CallbackChecks[loginFlow.rawCallbackParam, location].parsed
           withUrl == IF Len(loginFlow.rawCallbackParam) > 0 /\ parsed.ok
                      THEN [loginFlow EXCEPT !.parsedCallbackUrl = parsed.val]
                      ELSE loginFlow
       IN  loginFlow' = IF message # "none" THEN Failed(withUrl, message)
                        ELSE [withUrl EXCEPT !.pc = "mount:loadPrivate"]
    /\ UNCHANGED <<idb, redirected>>
    /\ LoginUnchanged

\* onMount: loadKey(PRIVATE_KEY_NAME) settles.
LoginMountLoadedPrivate ==
    /\ loginFlow.pc = "mount:loadPrivate"
    /\ \E resolved \in BOOLEAN :
        loginFlow' =
            IF ~resolved THEN Failed(Did(loginFlow, "loadKey"), "InitFailed")
            ELSE [Did(loginFlow, "loadKey") EXCEPT
                    !.privateKey = loadKey(idb, PRIVATE_KEY_NAME),
                    !.pc = "mount:loadPublic"]
    /\ UNCHANGED <<idb, redirected>>
    /\ LoginUnchanged

\* An onMount that asks for an account only when the private key is absent.
LoginMountLoadedPublic_PrivateOnly ==
    /\ loginFlow.pc = "mount:loadPublic"
    /\ \E resolved \in BOOLEAN :
        LET publicKey == loadKey(idb, PUBLIC_KEY_NAME)
        IN  loginFlow' =
                IF ~resolved THEN Failed(loginFlow, "InitFailed")
                ELSE IF Missing(loginFlow.privateKey)
                THEN [loginFlow EXCEPT !.publicKey = publicKey,
                                       !.currentStep = "accountCreationRequired",
                                       !.pc = "idle"]
                ELSE [loginFlow EXCEPT !.publicKey = publicKey,
                                       !.pc = "mount:isTrusted"]
    /\ UNCHANGED <<idb, redirected>>
    /\ LoginUnchanged

\* onMount: loadKey(PUBLIC_KEY_NAME) settles.
LoginMountLoadedPublic ==
    /\ loginFlow.pc = "mount:loadPublic"
    /\ \E resolved \in BOOLEAN :
        LET publicKey == loadKey(idb, PUBLIC_KEY_NAME)
        IN  loginFlow' =
                IF ~resolved THEN Failed(loginFlow, "InitFailed")
                ELSE IF Missing(loginFlow.privateKey) \/ Missing(publicKey)
                THEN [loginFlow EXCEPT !.publicKey = publicKey,
                                       !.currentStep = "accountCreationRequired",
                                       !.pc = "idle"]
                ELSE [loginFlow EXCEPT !.publicKey = publicKey,
                                       !.pc = "mount:isTrusted"]
    /\ UNCHANGED <<idb, redirected>>
    /\ LoginUnchanged

\* An onMount that asks for consent whatever the store answers.
LoginMountTrustChecked_AlwaysAsk ==
    /\ loginFlow.pc = "mount:isTrusted"
    /\ \E resolved \in BOOLEAN :
        LET lf == Did(loginFlow, "isCallbackUrlTrusted")
        IN  loginFlow' =
                IF ~resolved THEN Failed(lf, "InitFailed")
                ELSE [lf EXCEPT !.currentStep = "awaitingConfirmation", !.pc = "idle"]
    /\ UNCHANGED <<idb, redirected>>
    /\ LoginUnchanged

\* onMount: isCallbackUrlTrusted settles.
LoginMountTrustChecked ==
    /\ loginFlow.pc = "mount:isTrusted"
    /\ \E resolved \in BOOLEAN :
        LET lf == Did(loginFlow, "isCallbackUrlTrusted")
            isTrusted == isCallbackUrlTrusted(idb, loginFlow.parsedCallbackUrl.href)
        IN  loginFlow' =
                IF ~resolved THEN Failed(lf, "InitFailed")
                ELSE IF isTrusted
                THEN proceedWithLogin(lf, loginFlow.privateKey, loginFlow.publicKey)
                ELSE [lf EXCEPT !.currentStep = "awaitingConfirmation", !.pc = "idle"]
    /\ UNCHANGED <<idb, redirected>>
    /\ LoginUnchanged

\* proceedWithLogin: createSignedLoginToken settles.
LoginTokenSigned ==
    /\ loginFlow.pc = "proceed:sign"
    /\ LET jwtToken == IssuedTokens[loginFlow.privateKey, loginFlow.parsedCallbackUrl.href,
                                    loginFlow.loginPayloadData, now]
       IN  loginFlow' =
               IF ~jwtToken.ok THEN Failed(loginFlow, "ProcessFailed")
               ELSE [Did(loginFlow, "sign") EXCEPT !.jwtToken = jwtToken.val,
                                                   !.pc = "proceed:export"]
    /\ UNCHANGED <<idb, redirected>>
    /\ LoginUnchanged

\* A redirect that carries the token and leaves the public key out.
LoginRedirected_TokenOnly ==
    /\ loginFlow.pc = "proceed:export"
    /\ LET redirectUrl == ParseURL(loginFlow.parsedCallbackUrl.href)
       IN  IF ~redirectUrl.ok
           THEN /\ loginFlow' = Failed(loginFlow, "ProcessFailed")
                /\ UNCHANGED redirected
           ELSE /\ loginFlow' = [Did(loginFlow, "redirect") EXCEPT !.pc = "done"]
                /\ redirected' = [type |-> "replace",
                                  base |-> redirectUrl.val.href,
                                  jwt |-> loginFlow.jwtToken,
                                  pubKey |-> <<>>]
    /\ UNCHANGED idb
    /\ LoginUnchanged

\* proceedWithLogin: exportPublicKeyToSpkiBase64Url settles, and the browser
\* is sent to the callback.
LoginRedirected ==
    /\ loginFlow.pc = "proceed:export"
    /\ LET publicKeySpkiBase64Url == ExportedPublicKeys[loginFlow.publicKey]
           redirectUrl == RedirectUrls[loginFlow.parsedCallbackUrl.href]
       IN  IF ~publicKeySpkiBase64Url.ok \/ ~redirectUrl.ok
           THEN /\ loginFlow' = Failed(loginFlow, "ProcessFailed")
                /\ UNCHANGED redirected
           ELSE /\ loginFlow' = [Did(loginFlow, "redirect") EXCEPT !.pc = "done"]
                /\ redirected' = [type |-> "replace",
                                  base |-> redirectUrl.val.href,
                                  jwt |-> loginFlow.jwtToken,
                                  pubKey |-> publicKeySpkiBase64Url.val]
    /\ UNCHANGED idb
    /\ LoginUnchanged

\* handleConfirm, up to saveTrustedCallbackUrl.
LoginHandleConfirm ==
    /\ loginFlow.currentStep = "awaitingConfirmation"
    /\ loginFlow.parsedCallbackUrl.type = "URL"
    /\ loginFlow.pc = "idle"
    /\ loginFlow' = [loginFlow EXCEPT !.currentStep = "loading", !.pc = "confirm:save"]
    /\ UNCHANGED <<idb, redirected>>
    /\ LoginUnchanged

\* handleConfirm: saveTrustedCallbackUrl settles.
LoginConfirmSaved ==
    /\ loginFlow.pc = "confirm:save"
    /\ \E resolved \in BOOLEAN :
        IF resolved
        THEN /\ idb' = saveTrustedCallbackUrl(idb, loginFlow.parsedCallbackUrl.href)
             /\ loginFlow' = [Did(loginFlow, "saveTrustedCallbackUrl") EXCEPT
                                !.pc = "confirm:loadPrivate"]
        ELSE /\ idb' = idb
             /\ loginFlow' = Failed(loginFlow, "ConfirmFailed")
    /\ UNCHANGED redirected
    /\ LoginUnchanged

\* handleConfirm: loadKey(PRIVATE_KEY_NAME) settles.
LoginConfirmLoadedPrivate ==
    /\ loginFlow.pc = "confirm:loadPrivate"
    /\ \E resolved \in BOOLEAN :
        loginFlow' =
            IF ~resolved THEN Failed(loginFlow, "ConfirmFailed")
            ELSE [loginFlow EXCEPT !.privateKey = loadKey(idb, PRIVATE_KEY_NAME),
                                   !.pc = "confirm:loadPublic"]
    /\ UNCHANGED <<idb, redirected>>
    /\ LoginUnchanged

\* handleConfirm: loadKey(PUBLIC_KEY_NAME) settles.
LoginConfirmLoadedPublic ==
    /\ loginFlow.pc = "confirm:loadPublic"
    /\ \E resolved \in BOOLEAN :
        LET publicKey == loadKey(idb, PUBLIC_KEY_NAME)
        IN  loginFlow' =
                IF ~resolved THEN Failed(loginFlow, "ConfirmFailed")
                ELSE IF Missing(loginFlow.privateKey) \/ Missing(publicKey)
                THEN Failed(loginFlow, "KeysNotFound")
                ELSE proceedWithLogin(loginFlow, loginFlow.privateKey, publicKey)
    /\ UNCHANGED <<idb, redirected>>
    /\ LoginUnchanged

\* A cancellation that records the callback as trusted.
LoginHandleCancel_Remembers ==
    /\ loginFlow.currentStep = "awaitingConfirmation"
    /\ loginFlow.parsedCallbackUrl.type = "URL"
    /\ loginFlow.pc = "idle"
    /\ loginFlow' = Failed(loginFlow, "Cancelled")
    /\ idb' = saveTrustedCallbackUrl(idb, loginFlow.parsedCallbackUrl.href)
    /\ UNCHANGED redirected
    /\ LoginUnchanged

LoginHandleCancel ==
    /\ loginFlow.currentStep = "awaitingConfirmation"
    /\ loginFlow.parsedCallbackUrl.type = "URL"
    /\ loginFlow.pc = "idle"
    /\ loginFlow' = Failed(loginFlow, "Cancelled")
    /\ UNCHANGED <<idb, redirected>>
    /\ LoginUnchanged

\* The AuthFlow embedded in the accountCreationRequired step installs an
\* identity.
LoginAccountCreated ==
    /\ loginFlow.currentStep = "accountCreationRequired"
    /\ \E k \in KeyPairs :
        idb' = saveKey(saveKey(idb, OperationalKey(k), PRIVATE_KEY_NAME),
                       PublicKey(k), PUBLIC_KEY_NAME)
    /\ UNCHANGED <<loginFlow, redirected>>
    /\ LoginUnchanged

\* The user loads the login page again, with the same parameters.
LoginReload ==
    /\ loginFlow.pc = "idle"
    /\ loginFlow' = MountedLoginFlow(loginFlow.rawCallbackParam, loginFlow.loginPayloadData)
    /\ UNCHANGED <<idb, redirected>>
    /\ LoginUnchanged

(***************************************************************************)
(* Key wrapping (auth.ts): PBKDF2, AES-GCM and the JWK form of a key.      *)
(* The cipher is ideal: a text wrapped under a key and an IV unwraps under *)
(* that key and IV, and under nothing else.                                *)
(***************************************************************************)

JArr(items) == [t |-> "arr", items |-> items]

JBool(b) == IF b THEN [t |-> "true"] ELSE [t |-> "false"]

\* JSON.stringify(value, null, 2)
RECURSIVE StringifyIndented(_, _)
RECURSIVE IndentedMembers(_, _, _)
RECURSIVE IndentedItems(_, _, _)
IndentedMembers(ms, level, first) ==
    IF Len(ms) = 0 THEN <<>>
    ELSE IF ms[1].v.t = "undefined" THEN IndentedMembers(Tail(ms), level, first)
    ELSE (IF first THEN <<>> ELSE <<44>>)
         \o <<10>> \o Repeat(32, 2 * level)
         \o QuoteJSON(ms[1].k) \o <<58, 32>> \o StringifyIndented(ms[1].v, level)
         \o IndentedMembers(Tail(ms), level, FALSE)

IndentedItems(items, level, first) ==
    IF Len(items) = 0 THEN <<>>
    ELSE (IF first THEN <<>> ELSE <<44>>)
         \o <<10>> \o Repeat(32, 2 * level)
         \o StringifyIndented(IF items[1].t = "undefined" THEN JNull ELSE items[1], level)
         \o IndentedItems(Tail(items), level, FALSE)

StringifyIndented(v, level) ==
    IF v.t = "obj" THEN
        LET inner == IndentedMembers(v.members, level + 1, TRUE)
        IN  IF inner = <<>> THEN <<123, 125>>
            ELSE <<123>> \o inner \o <<10>> \o Repeat(32, 2 * level) \o <<125>>
    ELSE IF v.t = "arr" THEN
        LET inner == IndentedItems(v.items, level + 1, TRUE)
        IN  IF inner = <<>> THEN <<91, 93>>
            ELSE <<91>> \o inner \o <<10>> \o Repeat(32, 2 * level) \o <<93>>
    ELSE JSONstringify(v)

base64ToArrayBuffer(base64) == atob(base64)

\* The P-384 key pairs of the model: the private scalar d and the public
\* point (x, y) of pair k, each of coordLength bytes.
coordLength == 48

\* A key pair of another curve of the platform, P-256, whose scalar and
\* coordinates have 32 bytes.
P256Pairs == {9}

CurveOf(k) == IF k \in P256Pairs THEN Str("P-256") ELSE Str("P-384")

FieldLength(k) == IF k \in P256Pairs THEN 32 ELSE coordLength

\* The curves crypto.subtle knows for ECDSA.
NamedCurves == {JStr(Str("P-256")), JStr(Str("P-384")), JStr(Str("P-521"))}

ScalarD(k) == Repeat(100 + k, FieldLength(k))

PointX(k) == Repeat(k, FieldLength(k))

PointY(k) == Repeat(200 + k, FieldLength(k))

\* The order in which the platform lists key usages.
UsageList(usages) ==
    (IF "sign" \in usages THEN <<JStr(Str("sign"))>> ELSE <<>>)
        \o (IF "verify" \in usages THEN <<JStr(Str("verify"))>> ELSE <<>>)

\* crypto.subtle.exportKey("jwk", key)
subtleExportJwk(key) ==
    IF ~key.extractable THEN Thrown("InvalidAccessError")
    ELSE [ok |-> TRUE,
          val |-> JObj(<<Member(Str("crv"), JStr(CurveOf(key.pair))),
                         Member(Str("d"), IF key.type = "private"
                                          THEN JStr(arrayBufferToBase64Url(ScalarD(key.pair)))
                                          ELSE JUndefined),
                         Member(Str("ext"), JBool(TRUE)),
                         Member(Str("key_ops"), JArr(UsageList(key.usages))),
                         Member(Str("kty"), JStr(Str("EC"))),
                         Member(Str("x"), JStr(arrayBufferToBase64Url(PointX(key.pair)))),
                         Member(Str("y"), JStr(arrayBufferToBase64Url(PointY(key.pair))))>>)]

\* The bytes of a base64url member of a JWK, <<>> if it is no such string.
BytesOrNone(bytes) == IF bytes.ok THEN bytes.val ELSE <<>>

MemberBytes(v) ==
    IF v.t = "str" THEN BytesOrNone(base64UrlToArrayBuffer(v.s)) ELSE <<>>

JwkBytes(jwk, name) == MemberBytes(Prop(jwk, Str(name)))

\* The key pairs of private scalar d and public point (x, y).
PairsOf(crv, d, x, y) ==
    {k \in KeyPairs \cup P256Pairs :
        crv = JStr(CurveOf(k)) /\ d = ScalarD(k) /\ x = PointX(k) /\ y = PointY(k)}

JwkPairs(jwk) ==
    PairsOf(Prop(jwk, Str("crv")),
            JwkBytes(jwk, "d"), JwkBytes(jwk, "x"), JwkBytes(jwk, "y"))

\* The usages a key_ops member of a JWK allows (all of them if it is absent).
JwkAllows(jwk, usages) ==
    LET ops == Prop(jwk, Str("key_ops"))
    IN  \/ ops.t = "undefined"
        \/ /\ ops.t = "arr"
           /\ \A u \in usages : \E i \in 1..Len(ops.items) : ops.items[i] = JStr(Str(u))

\* crypto.subtle.importKey("jwk", jwk, {name: "ECDSA", namedCurve}, extractable,
\* usages) for a private key.
ImportedPrivateKey(pairs, extractable, usages) ==
    IF pairs = {} THEN Thrown("DataError")
    ELSE [ok |-> TRUE, val |-> PrivateKey(CHOOSE k \in pairs : TRUE, extractable, usages)]

subtleImportJwk(jwk, namedCurve, extractable, usages) ==
    IF usages = {} \/ ~(usages \subseteq {"sign"}) THEN Thrown("SyntaxError")
    ELSE IF jwk.t # "obj" THEN Thrown("TypeError")
    ELSE IF namedCurve \notin NamedCurves THEN Thrown("NotSupportedError")
    ELSE IF \/ Prop(jwk, Str("kty")) # JStr(Str("EC"))
            \/ Prop(jwk, Str("crv")) # namedCurve
            \/ ~JwkAllows(jwk, usages)
            \/ (extractable /\ Prop(jwk, Str("ext")) = JBool(FALSE))
    THEN Thrown("DataError")
    ELSE ImportedPrivateKey(JwkPairs(jwk), extractable, usages)

\* crypto.subtle.importKey("raw", point, {name: "ECDSA", namedCurve}, true,
\* ["verify"])
PairsOfPoint(point, namedCurve) ==
    {k \in KeyPairs \cup P256Pairs :
        namedCurve = JStr(CurveOf(k)) /\ point = <<4>> \o PointX(k) \o PointY(k)}

ImportedPublicKey(pairs) ==
    IF pairs = {} THEN Thrown("DataError")
    ELSE [ok |-> TRUE, val |-> PublicKey(CHOOSE k \in pairs : TRUE)]

subtleImportRaw(point, namedCurve) ==
    IF namedCurve \notin NamedCurves THEN Thrown("NotSupportedError")
    ELSE ImportedPublicKey(PairsOfPoint(point, namedCurve))

\* A derivation that leaves the password out of the wrapping key.
deriveKeyFromPassword_SaltOnly(password, salt) ==
    [type |-> "secret", material |-> salt,
     extractable |-> TRUE, usages |-> {"wrapKey", "unwrapKey"}]

\* The AES-GCM key PBKDF2 derives from a password and a salt.
deriveKeyFromPassword(password, salt) ==
    [type |-> "secret", material |-> TextEncode(password) \o salt,
     extractable |-> TRUE, usages |-> {"wrapKey", "unwrapKey"}]

AesGcmEncrypt(key, iv, plaintext) ==
    <<Len(key.material)>> \o key.material \o <<Len(iv)>> \o iv \o plaintext

Decrypted(prefix, ciphertext) ==
    IF Len(ciphertext) >= Len(prefix) /\ SubSeq(ciphertext, 1, Len(prefix)) = prefix
    THEN [ok |-> TRUE, val |-> SubSeq(ciphertext, Len(prefix) + 1, Len(ciphertext))]
    ELSE Thrown("OperationError")

AesGcmDecrypt(key, iv, ciphertext) ==
    Decrypted(<<Len(key.material)>> \o key.material \o <<Len(iv)>> \o iv, ciphertext)

\* crypto.subtle.wrapKey("jwk", key, wrappingKey, {name: "AES-GCM", iv})
JwkWrapped(jwk, wrappingKey, iv) ==
    IF ~jwk.ok THEN jwk
    ELSE IF "wrapKey" \notin wrappingKey.usages THEN Thrown("InvalidAccessError")
    ELSE [ok |-> TRUE,
          val |-> AesGcmEncrypt(wrappingKey, iv, TextEncode(JSONstringify(jwk.val)))]

subtleWrapKey(key, wrappingKey, iv) == JwkWrapped(subtleExportJwk(key), wrappingKey, iv)

\* crypto.subtle.unwrapKey("jwk", wrapped, wrappingKey, {name: "AES-GCM", iv},
\* algorithm, extractable, usages)
JwkUnwrapped(jwk, algorithm, extractable, usages) ==
    IF ~jwk.ok THEN Thrown("DataError")
    ELSE IF algorithm.name # JStr(Str("ECDSA")) THEN Thrown("NotSupportedError")
    ELSE subtleImportJwk(jwk.val, algorithm.namedCurve, extractable, usages)

PlainUnwrapped(plain, algorithm, extractable, usages) ==
    IF ~plain.ok THEN plain
    ELSE JwkUnwrapped(JSONparse(TextDecode(plain.val)), algorithm, extractable, usages)

subtleUnwrapKey(wrapped, wrappingKey, iv, algorithm, extractable, usages) ==
    IF "unwrapKey" \notin wrappingKey.usages THEN Thrown("InvalidAccessError")
    ELSE PlainUnwrapped(AesGcmDecrypt(wrappingKey, iv, wrapped),
                        algorithm, extractable, usages)

\* The WrappedKeyPayload of a private key; salt and iv are the random values
\* drawn by the call.
\* keyAlgorithmName of the payload: the algorithm name of the key, which for
\* the EC keys of the application is ECDSA.
KeyAlgorithmName(kty) == IF kty = JStr(Str("EC")) THEN JStr(Str("ECDSA")) ELSE kty

\* A payload that records the salt in the place of the IV.
WrappedKeyPayload_SaltForIv(privateKeyToWrap, salt, iv, wrappedKeyBuffer, jwk) ==
    IF ~wrappedKeyBuffer.ok THEN wrappedKeyBuffer
    ELSE IF ~jwk.ok THEN jwk
    ELSE [ok |-> TRUE,
          val |-> JObj(<<
            Member(Str("salt"), JStr(arrayBufferToBase64(salt))),
            Member(Str("iv"), JStr(arrayBufferToBase64(salt))),
            Member(Str("cipherText"), JStr(arrayBufferToBase64(wrappedKeyBuffer.val))),
            Member(Str("keyAlgorithmName"), KeyAlgorithmName(Prop(jwk.val, Str("kty")))),
            Member(Str("keyAlgorithmNamedCurve"), Prop(jwk.val, Str("crv"))),
            Member(Str("keyExtractable"), JBool(privateKeyToWrap.extractable)),
            Member(Str("keyUsages"), JArr(UsageList(privateKeyToWrap.usages)))>>)]

WrappedKeyPayload(privateKeyToWrap, salt, iv, wrappedKeyBuffer, jwk) ==
    IF ~wrappedKeyBuffer.ok THEN wrappedKeyBuffer
    ELSE IF ~jwk.ok THEN jwk
    ELSE [ok |-> TRUE,
          val |-> JObj(<<
            Member(Str("salt"), JStr(arrayBufferToBase64(salt))),
            Member(Str("iv"), JStr(arrayBufferToBase64(iv))),
            Member(Str("cipherText"), JStr(arrayBufferToBase64(wrappedKeyBuffer.val))),
            Member(Str("keyAlgorithmName"), KeyAlgorithmName(Prop(jwk.val, Str("kty")))),
            Member(Str("keyAlgorithmNamedCurve"), Prop(jwk.val, Str("crv"))),
            Member(Str("keyExtractable"), JBool(privateKeyToWrap.extractable)),
            Member(Str("keyUsages"), JArr(UsageList(privateKeyToWrap.usages)))>>)]

wrapPrivateKeyWithPassword(privateKeyToWrap, password, salt, iv) ==
    WrappedKeyPayload(privateKeyToWrap, salt, iv,
                      subtleWrapKey(privateKeyToWrap,
                                    deriveKeyFromPassword(password, salt), iv),
                      subtleExportJwk(privateKeyToWrap))

\* The bytes atob gives for a member of the payload; a member that is no
\* string is converted to one first.
MemberText(v) ==
    IF v.t = "str" THEN v.s
    ELSE IF v.t = "undefined" THEN Str("undefined")
    ELSE JSONstringify(v)

PayloadBytes(payload, name) == base64ToArrayBuffer(MemberText(Prop(payload, Str(name))))

\* payload.keyUsages as the set of usages handed to unwrapKey.
KeyUsagesOf(usagesValue) ==
    IF usagesValue.t # "arr" THEN {}
    ELSE {u \in {"sign", "verify"} :
            \E i \in 1..Len(usagesValue.items) : usagesValue.items[i] = JStr(Str(u))}

\* An unwrapping that decrypts with an IV of its own.
PayloadDecodedForUnwrap_OwnIv(payload, password, salt, iv, wrappedKeyBuffer) ==
    IF ~salt.ok THEN salt
    ELSE IF ~iv.ok THEN iv
    ELSE IF ~wrappedKeyBuffer.ok THEN wrappedKeyBuffer
    ELSE subtleUnwrapKey(wrappedKeyBuffer.val,
                         deriveKeyFromPassword(password, salt.val),
                         Repeat(51, 12),
                         [name |-> Prop(payload, Str("keyAlgorithmName")),
                          namedCurve |-> Prop(payload, Str("keyAlgorithmNamedCurve"))],
                         Prop(payload, Str("keyExtractable")) = JBool(TRUE),
                         KeyUsagesOf(Prop(payload, Str("keyUsages"))))

PayloadDecodedForUnwrap(payload, password, salt, iv, wrappedKeyBuffer) ==
    IF ~salt.ok THEN salt
    ELSE IF ~iv.ok THEN iv
    ELSE IF ~wrappedKeyBuffer.ok THEN wrappedKeyBuffer
    ELSE subtleUnwrapKey(wrappedKeyBuffer.val,
                         deriveKeyFromPassword(password, salt.val),
                         iv.val,
                         [name |-> Prop(payload, Str("keyAlgorithmName")),
                          namedCurve |-> Prop(payload, Str("keyAlgorithmNamedCurve"))],
                         Prop(payload, Str("keyExtractable")) = JBool(TRUE),
                         KeyUsagesOf(Prop(payload, Str("keyUsages"))))

unwrapPrivateKeyWithPassword(payload, password) ==
    IF payload.t \in {"null", "undefined"} THEN Thrown("TypeError")
    ELSE PayloadDecodedForUnwrap(payload, password,
                                 PayloadBytes(payload, "salt"),
                                 PayloadBytes(payload, "iv"),
                                 PayloadBytes(payload, "cipherText"))

\* A padding that puts the zeros behind the bytes and cuts a long value
\* to its first bytes.
padToLength_Right(bytes, length) ==
    IF Len(bytes) = length THEN bytes
    ELSE IF Len(bytes) > length THEN SubSeq(bytes, 1, length)
    ELSE bytes \o Repeat(0, length - Len(bytes))

\* Number.padStart for byte strings: bytes brought to `length` bytes by
\* leading zeros, or cut to its last `length` bytes.
padToLength(bytes, length) ==
    IF Len(bytes) = length THEN bytes
    ELSE IF Len(bytes) > length THEN SubSeq(bytes, Len(bytes) - length + 1, Len(bytes))
    ELSE Repeat(0, length - Len(bytes)) \o bytes

\* !value of JavaScript for a member of a parsed JSON object.
Falsy(v) ==
    \/ v.t \in {"undefined", "null", "false"}
    \/ v.t = "str" /\ v.s = <<>>
    \/ v.t = "num" /\ v.m = 0

CoordinateBytes(v) ==
    IF v.t = "str" THEN base64UrlToArrayBuffer(v.s) ELSE Thrown("TypeError")

\* A point built with the two coordinates exchanged.
UncompressedPoint_Swapped(xBytesDecoded, yBytesDecoded) ==
    IF ~xBytesDecoded.ok THEN xBytesDecoded
    ELSE IF ~yBytesDecoded.ok THEN yBytesDecoded
    ELSE [ok |-> TRUE,
          val |-> <<4>> \o padToLength(yBytesDecoded.val, coordLength)
                        \o padToLength(xBytesDecoded.val, coordLength)]

UncompressedPoint(xBytesDecoded, yBytesDecoded) ==
    IF ~xBytesDecoded.ok THEN xBytesDecoded
    ELSE IF ~yBytesDecoded.ok THEN yBytesDecoded
    ELSE [ok |-> TRUE,
          val |-> <<4>> \o padToLength(xBytesDecoded.val, coordLength)
                        \o padToLength(yBytesDecoded.val, coordLength)]

extractPublicKeyFromJWK(jwk) ==
    IF Falsy(Prop(jwk, Str("x"))) \/ Falsy(Prop(jwk, Str("y"))) THEN Thrown("Error")
    ELSE UncompressedPoint(CoordinateBytes(Prop(jwk, Str("x"))),
                           CoordinateBytes(Prop(jwk, Str("y"))))

PublicImported(importedPrivateKey, importedPublicKey) ==
    IF ~importedPublicKey.ok THEN importedPublicKey
    ELSE [ok |-> TRUE,
          val |-> [importedPrivateKey |-> importedPrivateKey,
                   importedPublicKey |-> importedPublicKey.val]]

PrivateImported(jwk, importedPrivateKey, uncompressedPoint) ==
    IF ~importedPrivateKey.ok THEN importedPrivateKey
    ELSE IF ~uncompressedPoint.ok THEN uncompressedPoint
    ELSE PublicImported(importedPrivateKey.val,
                        subtleImportRaw(uncompressedPoint.val, Prop(jwk, Str("crv"))))

\* An import that leaves the private key extractable.
importJwkAsKeys_Extractable(jwk) ==
    PrivateImported(jwk,
                    subtleImportJwk(jwk, Prop(jwk, Str("crv")), TRUE, {"sign"}),
                    extractPublicKeyFromJWK(jwk))

\* An import that leaves the check of the structure to the platform.
importJwkAsKeys_Unchecked(jwk) ==
    PrivateImported(jwk,
                    subtleImportJwk(jwk, Prop(jwk, Str("crv")), FALSE, {"sign"}),
                    extractPublicKeyFromJWK(jwk))

importJwkAsKeys(jwk) ==
    IF \/ Prop(jwk, Str("kty")) # JStr(Str("EC"))
       \/ Falsy(Prop(jwk, Str("crv")))
       \/ Falsy(Prop(jwk, Str("x")))
       \/ Falsy(Prop(jwk, Str("y")))
       \/ Falsy(Prop(jwk, Str("d")))
    THEN Thrown("Error")
    ELSE PrivateImported(jwk,
                         subtleImportJwk(jwk, Prop(jwk, Str("crv")), FALSE, {"sign"}),
                         extractPublicKeyFromJWK(jwk))

\* k, salt and iv are the random values drawn by the call: the key pair, and
\* the salt and the IV of the wrapping.
OperationalImported(operationalPrivateKey, generatedPublicKey, wrappedPayload) ==
    IF ~operationalPrivateKey.ok THEN operationalPrivateKey
    ELSE [ok |-> TRUE,
          val |-> [operationalPrivateKey |-> operationalPrivateKey.val,
                   publicKey |-> generatedPublicKey,
                   wrappedKeyJSON |-> StringifyIndented(wrappedPayload, 0)]]

KeyWrapped(generatedPublicKey, wrappedPayload, jwkPrivate) ==
    IF ~wrappedPayload.ok THEN wrappedPayload
    ELSE IF ~jwkPrivate.ok THEN jwkPrivate
    ELSE OperationalImported(
            subtleImportJwk(jwkPrivate.val, JStr(Str("P-384")), FALSE, {"sign"}),
            generatedPublicKey, wrappedPayload.val)

KeyPairGenerated(extractablePrivateKey, generatedPublicKey, password, salt, iv) ==
    KeyWrapped(generatedPublicKey,
               wrapPrivateKeyWithPassword(extractablePrivateKey, password, salt, iv),
               subtleExportJwk(extractablePrivateKey))

generateUserKeysAndWrappedPayload(password, k, salt, iv) ==
    KeyPairGenerated(PrivateKey(k, TRUE, {"sign"}), PublicKey(k), password, salt, iv)

JwkExported(privateJwk) ==
    IF ~privateJwk.ok THEN privateJwk ELSE importJwkAsKeys(privateJwk.val)

KeyUnwrapped(unwrappedExtractablePrivateKey) ==
    IF ~unwrappedExtractablePrivateKey.ok THEN unwrappedExtractablePrivateKey
    ELSE JwkExported(subtleExportJwk(unwrappedExtractablePrivateKey.val))

WrappedKeyParsed(payload, password) ==
    IF ~payload.ok THEN payload
    ELSE KeyUnwrapped(unwrapPrivateKeyWithPassword(payload.val, password))

unwrapAndImportKeysFromPayload(wrappedKeyJSON, password) ==
    WrappedKeyParsed(JSONparse(wrappedKeyJSON), password)

\* signAndVerify signs a fixed text and verifies the signature; an invalid
\* signature is logged, not thrown.
signAndVerify(newPrivate, publicKey) ==
    LET encodedData == TextEncode(Str("This is a test string for signing and verification."))
        signature == subtleSign(newPrivate, encodedData)
    IN  IF ~signature.ok THEN signature
        ELSE LET isValid == subtleVerify(publicKey, signature.val, encodedData)
             IN  IF ~isValid.ok THEN isValid
                 ELSE [ok |-> TRUE, val |-> isValid.val]

(***************************************************************************)
(* AuthFlow.svelte                                                         *)
(***************************************************************************)

\* The scans the browser still has something of: getUserMedia calls that
\* have not settled and media streams or frame callbacks that are live.
MaxCameraRequests == 2

\* How many times the user starts a creation or an import.
MaxAttempts == 2

Passwords == {Str("pw")}

Salts == {Repeat(17, 16)}

Ivs == {Repeat(51, 12)}

\* What a user types or scans as wrapped key: the export of the first
\* identity under the password or under a password the user does not type,
\* a text that is no export, or the wrapped P-256 key of another
\* application.
WrappedKeyTexts ==
    {Str("oops"),
     StringifyIndented(
        wrapPrivateKeyWithPassword(PrivateKey(CHOOSE k \in P256Pairs : TRUE, TRUE, {"sign"}),
                                   Str("pw"), Repeat(17, 16), Repeat(51, 12)).val, 0)}
        \cup {generateUserKeysAndWrappedPayload(password, 1, salt, iv).val.wrappedKeyJSON :
                password \in {Str("pw"), Str("pw2")}, salt \in Salts, iv \in Ivs}

\* What generateUserKeysAndWrappedPayload returns for each password the page
\* can pass and each draw of key pair, salt and IV, computed once.
GeneratedKeys ==
    [password \in Passwords, k \in KeyPairs, salt \in Salts, iv \in Ivs |->
        generateUserKeysAndWrappedPayload(password, k, salt, iv)]

\* What unwrapAndImportKeysFromPayload returns for each wrapped key text and
\* password the page can pass, computed once.
ImportedKeys ==
    [wrappedKeyJSON \in WrappedKeyTexts, password \in Passwords |->
        unwrapAndImportKeysFromPayload(wrappedKeyJSON, password)]

\* saving is the key the pending saveKey was called with, wrote the pair of
\* the private key the activation has written.
Idle == [pc |-> "idle", password |-> <<>>, wrapped |-> <<>>,
         saving |-> Undefined, wrote |-> 0]

\* The component as constructed, before onMount has run.  mounting,
\* creating and importing are the places where onMount,
\* initiateUserCreationProcess and initiateUserImportProcess wait, with the
\* arguments they were called with.
MountedAuthFlow ==
    [currentStep |-> "loading",
     errorMessage |-> "null",
     userPrivateKey |-> Undefined,
     userPublicKey |-> Undefined,
     passwordInput |-> <<>>,
     wrappedKeyForExport |-> <<>>,
     qrCodeImageDataUrl |-> <<>>,
     wrappedKeyForImport |-> <<>>,
     qrScanError |-> "null",
     isScanning |-> FALSE,
     animationFrameId |-> FALSE,
     mediaStream |-> FALSE,
     mounting |-> "onMount",
     creating |-> Idle,
     importing |-> Idle]

\* attempts counts the creations and imports started; partial is the pair of
\* the private key written by the last attempt whose write of the public key
\* failed (0: none); interleaved tells that an activation has written to the
\* key store while another one was in flight.
NoInstalls == [attempts |-> 0, partial |-> 0, interleaved |-> FALSE]

PairOf(key) == IF Missing(key) THEN 0 ELSE key.pair

InFlight(activation) == activation.pc # "idle"

AuthUnchanged == UNCHANGED <<verifyVars, loginVars, otherVars>>

\* QRCode.toDataURL(text)
toDataURL(text) == Str("data:image/png;base64,") \o arrayBufferToBase64(TextEncode(text))

\* The QR code image of each wrapped key a creation makes, computed once.
DrawnQrCodes ==
    [text \in {generated.val.wrappedKeyJSON :
                  generated \in {g \in {GeneratedKeys[d] : d \in DOMAIN GeneratedKeys} : g.ok}} |->
        toDataURL(text)]

stopQrScan(af) ==
    [af EXCEPT !.isScanning = FALSE, !.animationFrameId = FALSE, !.mediaStream = FALSE]

\* Nothing of the camera is in use: requests are the calls of getUserMedia
\* that have not settled, streams the media streams whose tracks are live,
\* frames the callbacks requestAnimationFrame has scheduled.
CameraIdle == [requests |-> 0, streams |-> 0, frames |-> 0]

\* What stopQrScan releases: the frame animationFrameId names and the tracks
\* of the stream mediaStream refers to.
CameraAfterStop(cam, af) ==
    [cam EXCEPT !.frames = IF af.animationFrameId THEN @ - 1 ELSE @,
                !.streams = IF af.mediaStream THEN @ - 1 ELSE @]

\* The video and the canvas element exist while the scan step is shown.
VideoElementBound == authFlow.currentStep = "qrScanForImport"

\* onMount, up to the first loadKey.
AuthOnMount ==
    /\ authFlow.mounting = "onMount"
    /\ authFlow' = [authFlow EXCEPT !.currentStep = "loading", !.errorMessage = "null",
                                    !.mounting = "loadPrivate"]
    /\ UNCHANGED <<idb, camera, installs>>
    /\ AuthUnchanged

\* onMount: loadKey(PRIVATE_KEY_NAME) settles.
AuthMountLoadedPrivate ==
    /\ authFlow.mounting = "loadPrivate"
    /\ \E resolved \in BOOLEAN :
        authFlow' =
            IF ~resolved
            THEN [authFlow EXCEPT !.errorMessage = "LoadFailed", !.currentStep = "error",
                                  !.mounting = "done"]
            ELSE [authFlow EXCEPT !.userPrivateKey = loadKey(idb, PRIVATE_KEY_NAME),
                                  !.mounting = "loadPublic"]
    /\ UNCHANGED <<idb, camera, installs>>
    /\ AuthUnchanged

\* onMount: loadKey(PUBLIC_KEY_NAME) settles.
AuthMountLoadedPublic ==
    /\ authFlow.mounting = "loadPublic"
    /\ \E resolved \in BOOLEAN :
        LET userPublicKey == loadKey(idb, PUBLIC_KEY_NAME)
        IN  authFlow' =
                IF ~resolved
                THEN [authFlow EXCEPT !.errorMessage = "LoadFailed",
                                      !.currentStep = "error", !.mounting = "done"]
                ELSE IF ~Missing(authFlow.userPrivateKey) /\ ~Missing(userPublicKey)
                THEN [authFlow EXCEPT !.userPublicKey = userPublicKey,
                                      !.mounting = "signAndVerify"]
                ELSE [authFlow EXCEPT !.userPublicKey = userPublicKey,
                                      !.currentStep = "initial", !.mounting = "done"]
    /\ UNCHANGED <<idb, camera, installs>>
    /\ AuthUnchanged

\* onMount: signAndVerify settles.
AuthMountVerified ==
    /\ authFlow.mounting = "signAndVerify"
    /\ authFlow' =
        IF signAndVerify(authFlow.userPrivateKey, authFlow.userPublicKey).ok
        THEN [authFlow EXCEPT !.currentStep = "userReady", !.mounting = "done"]
        ELSE [authFlow EXCEPT !.errorMessage = "StoredKeysUnusable",
                              !.currentStep = "error", !.mounting = "done"]
    /\ UNCHANGED <<idb, camera, installs>>
    /\ AuthUnchanged

handleCreateUser ==
    /\ authFlow.currentStep = "initial"
    /\ authFlow' = [authFlow EXCEPT !.passwordInput = <<>>,
                                    !.currentStep = "enterPasswordForCreate"]
    /\ UNCHANGED <<idb, camera, installs>>
    /\ AuthUnchanged

\* The user types into the password field (bind:value={passwordInput}).
TypePassword ==
    /\ authFlow.currentStep \in {"enterPasswordForCreate", "enterWrappedKeyForImport"}
    /\ \E text \in Passwords :
        /\ text # authFlow.passwordInput
        /\ authFlow' = [authFlow EXCEPT !.passwordInput = text]
    /\ UNCHANGED <<idb, camera, installs>>
    /\ AuthUnchanged

\* The user types into the wrapped key field (bind:value={wrappedKeyForImport}).
TypeWrappedKey ==
    /\ authFlow.currentStep = "enterWrappedKeyForImport"
    /\ \E text \in WrappedKeyTexts :
        /\ text # authFlow.wrappedKeyForImport
        /\ authFlow' = [authFlow EXCEPT !.wrappedKeyForImport = text]
    /\ UNCHANGED <<idb, camera, installs>>
    /\ AuthUnchanged

\* initiateUserCreationProcess, up to generateUserKeysAndWrappedPayload.  The
\* button is shown in the enterPasswordForCreate step and disabled while
\* passwordInput is empty.
initiateUserCreationProcess ==
    /\ authFlow.currentStep = "enterPasswordForCreate"
    /\ authFlow.passwordInput # <<>>
    /\ ~InFlight(authFlow.creating)
    /\ installs.attempts < MaxAttempts
    /\ installs' = [installs EXCEPT !.attempts = @ + 1]
    /\ authFlow' = [authFlow EXCEPT
                        !.currentStep = "loading",
                        !.errorMessage = "null",
                        !.creating = [Idle EXCEPT !.pc = "generate",
                                                  !.password = authFlow.passwordInput]]
    /\ UNCHANGED <<idb, camera>>
    /\ AuthUnchanged

\* A catch block that reports the failure and leaves the loader on the
\* screen.
CreationFailed_KeepsLoading(af) ==
    [af EXCEPT !.errorMessage = "CreateFailed", !.passwordInput = <<>>, !.creating = Idle]

\* The catch and the finally block of initiateUserCreationProcess.
CreationFailed(af) ==
    [af EXCEPT !.errorMessage = "CreateFailed", !.currentStep = "error",
               !.passwordInput = <<>>, !.creating = Idle]

\* initiateUserCreationProcess: generateUserKeysAndWrappedPayload settles.
CreationGenerated ==
    /\ authFlow.creating.pc = "generate"
    /\ \E k \in KeyPairs, salt \in Salts, iv \in Ivs :
        LET generated == GeneratedKeys[authFlow.creating.password, k, salt, iv]
        IN  authFlow' =
                IF ~generated.ok THEN CreationFailed(authFlow)
                ELSE [authFlow EXCEPT
                        !.wrappedKeyForExport = generated.val.wrappedKeyJSON,
                        !.creating = [pc |-> "toDataURL",
                                      password |-> authFlow.creating.password,
                                      wrapped |-> <<>>,
                                      saving |-> Undefined,
                                      wrote |-> 0,
                                      operationalPrivateKey |->
                                          generated.val.operationalPrivateKey,
                                      publicKey |-> generated.val.publicKey]]
    /\ UNCHANGED <<idb, camera, installs>>
    /\ AuthUnchanged

\* initiateUserCreationProcess: QRCode.toDataURL settles.
CreationQrDrawn ==
    /\ authFlow.creating.pc = "toDataURL"
    /\ authFlow' = [authFlow EXCEPT
                        !.qrCodeImageDataUrl = DrawnQrCodes[authFlow.wrappedKeyForExport],
                        !.userPrivateKey = authFlow.creating.operationalPrivateKey,
                        !.userPublicKey = authFlow.creating.publicKey,
                        !.creating = [Idle EXCEPT
                                        !.pc = "savePrivate",
                                        !.password = authFlow.creating.password,
                                        !.saving = authFlow.creating.operationalPrivateKey]]
    /\ UNCHANGED <<idb, camera, installs>>
    /\ AuthUnchanged

\* initiateUserCreationProcess: saveKey(userPrivateKey, PRIVATE_KEY_NAME)
\* settles.
CreationSavedPrivate ==
    /\ authFlow.creating.pc = "savePrivate"
    /\ \E resolved \in BOOLEAN :
        IF resolved
        THEN /\ idb' = saveKey(idb, authFlow.creating.saving, PRIVATE_KEY_NAME)
             /\ authFlow' = [authFlow EXCEPT
                                !.creating.pc = "savePublic",
                                !.creating.saving = authFlow.userPublicKey,
                                !.creating.wrote = PairOf(authFlow.creating.saving)]
             /\ installs' = [installs EXCEPT
                                !.interleaved = @ \/ InFlight(authFlow.importing)]
        ELSE /\ authFlow' = CreationFailed(authFlow)
             /\ UNCHANGED <<idb, installs>>
    /\ UNCHANGED camera
    /\ AuthUnchanged

\* initiateUserCreationProcess: saveKey(userPublicKey, PUBLIC_KEY_NAME)
\* settles.
CreationSavedPublic ==
    /\ authFlow.creating.pc = "savePublic"
    /\ \E resolved \in BOOLEAN :
        IF resolved
        THEN /\ idb' = saveKey(idb, authFlow.creating.saving, PUBLIC_KEY_NAME)
             /\ authFlow' = [authFlow EXCEPT !.currentStep = "qrExport",
                                             !.passwordInput = <<>>,
                                             !.creating = Idle]
             /\ installs' = [installs EXCEPT
                                !.partial = 0,
                                !.interleaved = @ \/ InFlight(authFlow.importing)]
        ELSE /\ authFlow' = CreationFailed(authFlow)
             /\ installs' = [installs EXCEPT !.partial = authFlow.creating.wrote]
             /\ UNCHANGED idb
    /\ UNCHANGED camera
    /\ AuthUnchanged

\* handleImportKey and the start of startQrScan, up to getUserMedia.
handleImportKey ==
    /\ authFlow.currentStep = "initial"
    /\ camera.requests + camera.streams < MaxCameraRequests
    /\ camera.requests + camera.frames < MaxCameraRequests
    /\ \E supported \in BOOLEAN :
        IF supported
        THEN /\ authFlow' = [authFlow EXCEPT !.passwordInput = <<>>,
                                             !.wrappedKeyForImport = <<>>,
                                             !.qrScanError = "null",
                                             !.currentStep = "qrScanForImport",
                                             !.isScanning = TRUE]
             /\ camera' = [camera EXCEPT !.requests = @ + 1]
        ELSE /\ authFlow' = [authFlow EXCEPT !.passwordInput = <<>>,
                                             !.wrappedKeyForImport = <<>>,
                                             !.qrScanError = "NotSupported",
                                             !.currentStep = "enterWrappedKeyForImport"]
             /\ UNCHANGED camera
    /\ UNCHANGED <<idb, installs>>
    /\ AuthUnchanged

\* startQrScan: getUserMedia resolves; the video plays and tick starts the
\* scanning loop, or play() is refused.
CameraGranted ==
    /\ camera.requests > 0
    /\ \E played \in BOOLEAN :
        LET granted == [camera EXCEPT !.requests = @ - 1, !.streams = @ + 1]
            assigned == [authFlow EXCEPT !.mediaStream = TRUE]
        IN  IF ~VideoElementBound
            THEN /\ authFlow' = assigned
                 /\ camera' = granted
            ELSE IF played
            THEN /\ authFlow' = [assigned EXCEPT !.animationFrameId = authFlow.isScanning]
                 /\ camera' = [granted EXCEPT
                                !.frames = IF authFlow.isScanning THEN @ + 1 ELSE @]
            ELSE /\ authFlow' = [stopQrScan(assigned) EXCEPT
                                    !.qrScanError = "NoCamera",
                                    !.currentStep = "enterWrappedKeyForImport"]
                 /\ camera' = CameraAfterStop(granted, assigned)
    /\ UNCHANGED <<idb, installs>>
    /\ AuthUnchanged

\* startQrScan: getUserMedia rejects.
CameraDenied ==
    /\ camera.requests > 0
    /\ camera' = CameraAfterStop([camera EXCEPT !.requests = @ - 1], authFlow)
    /\ authFlow' = [stopQrScan(authFlow) EXCEPT !.qrScanError = "NoCamera",
                                                !.currentStep = "enterWrappedKeyForImport"]
    /\ UNCHANGED <<idb, installs>>
    /\ AuthUnchanged

\* A scheduled frame callback runs tick, which finds a QR code in the video
\* frame.  The frame animationFrameId names is the one that has just run
\* (cancelling it does nothing) or, when several are scheduled, another one.
QrCodeDetected ==
    /\ authFlow.isScanning /\ authFlow.animationFrameId /\ VideoElementBound
    /\ camera.frames > 0
    /\ \E text \in WrappedKeyTexts :
        authFlow' = [stopQrScan(authFlow) EXCEPT !.wrappedKeyForImport = text,
                                                 !.currentStep = "enterWrappedKeyForImport"]
    /\ \E own \in BOOLEAN :
        LET run == [camera EXCEPT !.frames = @ - 1]
        IN  camera' = IF own \/ run.frames = 0
                      THEN CameraAfterStop(run, [authFlow EXCEPT !.animationFrameId = FALSE])
                      ELSE CameraAfterStop(run, authFlow)
    /\ UNCHANGED <<idb, installs>>
    /\ AuthUnchanged

\* A scheduled frame callback runs tick, which finds no QR code: the next
\* frame is requested while isScanning, and the loop ends otherwise.
FrameFired ==
    /\ camera.frames > 0
    /\ IF authFlow.isScanning
       THEN /\ authFlow' = [authFlow EXCEPT !.animationFrameId = TRUE]
            /\ UNCHANGED camera
       ELSE /\ camera' = [camera EXCEPT !.frames = @ - 1]
            /\ UNCHANGED authFlow
    /\ UNCHANGED <<idb, installs>>
    /\ AuthUnchanged

\* The button "Manual Input" of the scan step.
ScanManualInput ==
    /\ authFlow.currentStep = "qrScanForImport"
    /\ authFlow' = [stopQrScan(authFlow) EXCEPT !.currentStep = "enterWrappedKeyForImport",
                                                !.qrScanError = "null"]
    /\ camera' = CameraAfterStop(camera, authFlow)
    /\ UNCHANGED <<idb, installs>>
    /\ AuthUnchanged

\* The button "Back" of the scan step.
ScanBack ==
    /\ authFlow.currentStep = "qrScanForImport"
    /\ authFlow' = [stopQrScan(authFlow) EXCEPT !.currentStep = "initial",
                                                !.qrScanError = "null",
                                                !.errorMessage = "null"]
    /\ camera' = CameraAfterStop(camera, authFlow)
    /\ UNCHANGED <<idb, installs>>
    /\ AuthUnchanged

\* The button "Back" of the enterPasswordForCreate step, and "Try Again" of
\* the error step.
BackToInitial ==
    /\ authFlow.currentStep \in {"enterPasswordForCreate", "error"}
    /\ authFlow' = [authFlow EXCEPT !.currentStep = "initial", !.errorMessage = "null"]
    /\ UNCHANGED <<idb, camera, installs>>
    /\ AuthUnchanged

\* The button "Back" of the enterWrappedKeyForImport step.
ImportBack ==
    /\ authFlow.currentStep = "enterWrappedKeyForImport"
    /\ authFlow' = [authFlow EXCEPT !.currentStep = "initial", !.errorMessage = "null",
                                    !.wrappedKeyForImport = <<>>, !.passwordInput = <<>>,
                                    !.qrScanError = "null"]
    /\ UNCHANGED <<idb, camera, installs>>
    /\ AuthUnchanged

\* The buttons of the qrExport step: "Done" and "Back to Start".
QrExportLeave ==
    /\ authFlow.currentStep = "qrExport"
    /\ \E next \in {"userReady", "initial"} :
        authFlow' = [authFlow EXCEPT !.currentStep = next]
    /\ UNCHANGED <<idb, camera, installs>>
    /\ AuthUnchanged

\* initiateUserImportProcess, up to unwrapAndImportKeysFromPayload.  The
\* button is shown in the enterWrappedKeyForImport step and disabled while
\* passwordInput or wrappedKeyForImport is empty.
initiateUserImportProcess ==
    /\ authFlow.currentStep = "enterWrappedKeyForImport"
    /\ authFlow.passwordInput # <<>>
    /\ authFlow.wrappedKeyForImport # <<>>
    /\ ~InFlight(authFlow.importing)
    /\ installs.attempts < MaxAttempts
    /\ installs' = [installs EXCEPT !.attempts = @ + 1]
    /\ authFlow' = [authFlow EXCEPT
                        !.currentStep = "loading",
                        !.errorMessage = "null",
                        !.importing = [Idle EXCEPT
                                        !.pc = "unwrap",
                                        !.password = authFlow.passwordInput,
                                        !.wrapped = authFlow.wrappedKeyForImport]]
    /\ UNCHANGED <<idb, camera>>
    /\ AuthUnchanged

\* The catch and the finally block of initiateUserImportProcess.
ImportFailed(af) ==
    [af EXCEPT !.errorMessage = "ImportFailed", !.currentStep = "error",
               !.passwordInput = <<>>, !.wrappedKeyForImport = <<>>, !.importing = Idle]

\* An import that removes the stored identity when the unwrapping fails.
ImportUnwrapped_ForgetsIdentity ==
    /\ authFlow.importing.pc = "unwrap"
    /\ LET imported == ImportedKeys[authFlow.importing.wrapped,
                                    authFlow.importing.password]
       IN  /\ authFlow' =
               IF ~imported.ok THEN ImportFailed(authFlow)
               ELSE [authFlow EXCEPT !.userPrivateKey = imported.val.importedPrivateKey,
                                     !.userPublicKey = imported.val.importedPublicKey,
                                     !.importing.pc = "savePrivate",
                                     !.importing.saving = imported.val.importedPrivateKey]
           /\ idb' = IF imported.ok THEN idb ELSE [idb EXCEPT !.keys = EmptyKeys]
    /\ UNCHANGED <<camera, installs>>
    /\ AuthUnchanged

\* initiateUserImportProcess: unwrapAndImportKeysFromPayload settles.
ImportUnwrapped ==
    /\ authFlow.importing.pc = "unwrap"
    /\ LET imported == ImportedKeys[authFlow.importing.wrapped,
                                    authFlow.importing.password]
       IN  authFlow' =
               IF ~imported.ok THEN ImportFailed(authFlow)
               ELSE [authFlow EXCEPT !.userPrivateKey = imported.val.importedPrivateKey,
                                     !.userPublicKey = imported.val.importedPublicKey,
                                     !.importing.pc = "savePrivate",
                                     !.importing.saving = imported.val.importedPrivateKey]
    /\ UNCHANGED <<idb, camera, installs>>
    /\ AuthUnchanged

\* initiateUserImportProcess: saveKey(userPrivateKey, PRIVATE_KEY_NAME)
\* settles.
ImportSavedPrivate ==
    /\ authFlow.importing.pc = "savePrivate"
    /\ \E resolved \in BOOLEAN :
        IF resolved
        THEN /\ idb' = saveKey(idb, authFlow.importing.saving, PRIVATE_KEY_NAME)
             /\ authFlow' = [authFlow EXCEPT
                                !.importing.pc = "savePublic",
                                !.importing.saving = authFlow.userPublicKey,
                                !.importing.wrote = PairOf(authFlow.importing.saving)]
             /\ installs' = [installs EXCEPT
                                !.interleaved = @ \/ InFlight(authFlow.creating)]
        ELSE /\ authFlow' = ImportFailed(authFlow)
             /\ UNCHANGED <<idb, installs>>
    /\ UNCHANGED camera
    /\ AuthUnchanged

\* initiateUserImportProcess: saveKey(userPublicKey, PUBLIC_KEY_NAME) settles.
ImportSavedPublic ==
    /\ authFlow.importing.pc = "savePublic"
    /\ \E resolved \in BOOLEAN :
        IF resolved
        THEN /\ idb' = saveKey(idb, authFlow.importing.saving, PUBLIC_KEY_NAME)
             /\ authFlow' = [authFlow EXCEPT !.importing.pc = "signAndVerify"]
             /\ installs' = [installs EXCEPT
                                !.partial = 0,
                                !.interleaved = @ \/ InFlight(authFlow.creating)]
        ELSE /\ authFlow' = ImportFailed(authFlow)
             /\ installs' = [installs EXCEPT !.partial = authFlow.importing.wrote]
             /\ UNCHANGED idb
    /\ UNCHANGED camera
    /\ AuthUnchanged

\* initiateUserImportProcess: signAndVerify settles.
ImportVerified ==
    /\ authFlow.importing.pc = "signAndVerify"
    /\ authFlow' =
        IF ~signAndVerify(authFlow.userPrivateKey, authFlow.userPublicKey).ok
        THEN ImportFailed(authFlow)
        ELSE [authFlow EXCEPT !.currentStep = "userReady", !.passwordInput = <<>>,
                              !.wrappedKeyForImport = <<>>, !.importing = Idle]
    /\ UNCHANGED <<idb, camera, installs>>
    /\ AuthUnchanged

\* The user loads the identity page again while no operation of the component
\* is in flight: the component is constructed anew and onMount runs again;
\* the key store is what the earlier operations left in it, and a camera
\* request of the page that is left is never answered to the new one.
AuthReload ==
    /\ authFlow.mounting = "done"
    /\ ~InFlight(authFlow.creating)
    /\ ~InFlight(authFlow.importing)
    /\ ~authFlow.isScanning
    /\ authFlow.currentStep \in {"userReady", "error", "qrExport"}
    /\ authFlow' = MountedAuthFlow
    /\ camera' = CameraIdle
    /\ UNCHANGED <<idb, installs>>
    /\ AuthUnchanged

\* No key has been wrapped and no identity generated.
NoBackup ==
    [stage |-> "none", key |-> Undefined, publicKey |-> Undefined,
     password |-> <<>>, salt |-> <<>>, iv |-> <<>>,
     payload |-> JUndefined, wrappedKeyJSON |-> <<>>,
     with |-> <<>>, out |-> Thrown("none")]

\* App.svelte has not been opened.
NoApp == [pc |-> "closed", pathname |-> <<>>, callback |-> Null, payload |-> Null,
          currentView |-> "loading", rawCallbackParamForLoginFlow |-> Null]

\* No function has been called.
NoLab == [fn |-> "none", arg |-> JUndefined, out |-> Thrown("none"), imported |-> {}]

\* No callback URL has been saved or asked for.
NoTrustLog == [confirmed |-> {}, saved |-> <<>>, times |-> 0,
               asked |-> <<>>, answer |-> FALSE]

(***************************************************************************)
(* initializeAuthFlow (auth.ts), which main.ts calls when the page loads.  *)
(* The markup of the page is not part of the sources: a button is taken to *)
(* lie in the section whose name it shares, and no section is shown before *)
(* initializeAuthFlow has set the display of each.                         *)
(***************************************************************************)

\* The closure of the click handler of createUserButton after createUser.
NoUser == [newPrivate |-> Undefined, publicKey |-> Undefined,
           exportedPrivateJwk |-> JUndefined]

\* pc is the place where initializeAuthFlow or a click handler waits;
\* shown are the sections whose display is 'block'; listeners are the
\* elements that have a listener; timer tells that the setTimeout of 1500 ms
\* is pending; alert is the last alert raised; attempts counts the clicks on
\* createUserButton.
LoadedPage ==
    [pc |-> "initializeAuthFlow",
     shown |-> {},
     listeners |-> {},
     userPrivateKey |-> Undefined,
     userPublicKey |-> Undefined,
     created |-> NoUser,
     qrCodeImage |-> <<>>,
     timer |-> FALSE,
     alert |-> "none",
     attempts |-> 0]

\* style.display = 'block' for the sections of on, 'none' for those of off.
Show(shown, on, off) == (shown \ off) \cup on

PageUnchanged == UNCHANGED <<verifyVars, loginVars, authVars, backup, trustLog, app, lab>>

UserPublicImported(exportedPrivateJwk, newPrivate, publicKey) ==
    IF ~publicKey.ok THEN publicKey
    ELSE [ok |-> TRUE,
          val |-> [newPrivate |-> newPrivate,
                   publicKey |-> publicKey.val,
                   exportedPrivateJwk |-> exportedPrivateJwk]]

UserKeyImported(exportedPrivateJwk, newPrivate, uncompressedPoint) ==
    IF ~newPrivate.ok THEN newPrivate
    ELSE IF ~uncompressedPoint.ok THEN uncompressedPoint
    ELSE UserPublicImported(exportedPrivateJwk, newPrivate.val,
                            subtleImportRaw(uncompressedPoint.val, JStr(Str("P-384"))))

UserKeyExported(exportedPrivateJwk) ==
    IF ~exportedPrivateJwk.ok THEN exportedPrivateJwk
    ELSE UserKeyImported(exportedPrivateJwk.val,
                         subtleImportJwk(exportedPrivateJwk.val, JStr(Str("P-384")),
                                         FALSE, {"sign"}),
                         extractPublicKeyFromJWK(exportedPrivateJwk.val))

\* createUser; k is the key pair generateKey draws.
createUser(k) == UserKeyExported(subtleExportJwk(PrivateKey(k, TRUE, {"sign"})))

\* What createUser returns for each draw of the key pair, computed once.
CreatedUsers == [k \in KeyPairs |-> createUser(k)]

\* The if on the loaded keys, after the try block around the two loadKey.
KeysLoaded(p) ==
    IF ~Missing(p.userPrivateKey) /\ ~Missing(p.userPublicKey)
    THEN [p EXCEPT !.shown = Show(@, {"userCreatedSection"},
                                  {"createUserSection", "loadingSection",
                                   "userInfoSection"}),
                   !.pc = "signAndVerify"]
    ELSE [p EXCEPT !.shown = Show(@, {"createUserSection"},
                                  {"loadingSection", "userCreatedSection",
                                   "userInfoSection"}),
                   !.listeners = {"createUserButton", "userInfoForm"},
                   !.pc = "idle"]

\* initializeAuthFlow, up to the first loadKey.
initializeAuthFlow ==
    /\ page.pc = "initializeAuthFlow"
    /\ page' = [page EXCEPT !.pc = "loadPrivate"]
    /\ UNCHANGED idb
    /\ PageUnchanged

\* initializeAuthFlow: loadKey(PRIVATE_KEY_NAME) settles.
PageLoadedPrivate ==
    /\ page.pc = "loadPrivate"
    /\ \E resolved \in BOOLEAN :
        page' = IF ~resolved THEN KeysLoaded(page)
                ELSE [page EXCEPT !.userPrivateKey = loadKey(idb, PRIVATE_KEY_NAME),
                                  !.pc = "loadPublic"]
    /\ UNCHANGED idb
    /\ PageUnchanged

\* initializeAuthFlow: loadKey(PUBLIC_KEY_NAME) settles.
PageLoadedPublic ==
    /\ page.pc = "loadPublic"
    /\ \E resolved \in BOOLEAN :
        page' = IF ~resolved THEN KeysLoaded(page)
                ELSE KeysLoaded([page EXCEPT
                                    !.userPublicKey = loadKey(idb, PUBLIC_KEY_NAME)])
    /\ UNCHANGED idb
    /\ PageUnchanged

\* initializeAuthFlow: signAndVerify with the loaded keys settles, and the
\* timer that shows the user information form is set.
PageVerified ==
    /\ page.pc = "signAndVerify"
    /\ page' =
        IF signAndVerify(page.userPrivateKey, page.userPublicKey).ok
        THEN [page EXCEPT !.timer = TRUE, !.pc = "idle"]
        ELSE [page EXCEPT !.shown = Show(@, {"createUserSection"}, {"userCreatedSection"}),
                          !.alert = "VerifyError",
                          !.timer = TRUE, !.pc = "idle"]
    /\ UNCHANGED idb
    /\ PageUnchanged

\* The callback of setTimeout.
PageTimeout ==
    /\ page.timer
    /\ page' = [page EXCEPT !.timer = FALSE,
                            !.shown = Show(@, {"userInfoSection"}, {"userCreatedSection"})]
    /\ UNCHANGED idb
    /\ PageUnchanged

\* The catch block of the click handler of createUserButton.
UserCreationFailed(p) ==
    [p EXCEPT !.shown = Show(@, {"createUserSection"}, {"loadingSection"}),
              !.alert = "CreateFailed",
              !.pc = "idle"]

\* The click handler of createUserButton, up to createUser.
createUserButtonClicked ==
    /\ "createUserButton" \in page.listeners
    /\ "createUserSection" \in page.shown
    /\ page.pc = "idle"
    /\ page.attempts < MaxAttempts
    /\ page' = [page EXCEPT
                    !.shown = Show(@, {"loadingSection"},
                                   {"createUserSection", "userCreatedSection",
                                    "userInfoSection", "qrCodeSection"}),
                    !.attempts = @ + 1,
                    !.pc = "createUser"]
    /\ UNCHANGED idb
    /\ PageUnchanged

\* The click handler of createUserButton: createUser settles.
PageUserCreated ==
    /\ page.pc = "createUser"
    /\ \E k \in KeyPairs :
        page' = IF ~CreatedUsers[k].ok THEN UserCreationFailed(page)
                ELSE [page EXCEPT !.created = CreatedUsers[k].val, !.pc = "toDataURL"]
    /\ UNCHANGED idb
    /\ PageUnchanged

\* The click handler of createUserButton: QRCode.toDataURL settles, the QR
\* code is shown and qrCodeSavedButton gets its listener.
PageQrDrawn ==
    /\ page.pc = "toDataURL"
    /\ page' = [page EXCEPT
                    !.qrCodeImage = toDataURL(JSONstringify(page.created.exportedPrivateJwk)),
                    !.shown = Show(@, {"qrCodeSection"}, {"loadingSection"}),
                    !.listeners = @ \cup {"qrCodeSavedButton"},
                    !.pc = "idle"]
    /\ UNCHANGED idb
    /\ PageUnchanged

\* The catch block around the two saveKey of the click handler of
\* qrCodeSavedButton.
UserSaveFailed(p) ==
    [p EXCEPT !.shown = Show(@, {"createUserSection"}, {"userCreatedSection"}),
              !.alert = "SaveError",
              !.pc = "idle"]

\* The click handler of qrCodeSavedButton ({once: true}), up to the first
\* saveKey.
qrCodeSavedButtonClicked ==
    /\ "qrCodeSavedButton" \in page.listeners
    /\ "qrCodeSection" \in page.shown
    /\ page.pc = "idle"
    /\ page' = [page EXCEPT
                    !.shown = Show(@, {"userCreatedSection"}, {"qrCodeSection"}),
                    !.listeners = @ \ {"qrCodeSavedButton"},
                    !.pc = "savePrivate"]
    /\ UNCHANGED idb
    /\ PageUnchanged

\* The click handler of qrCodeSavedButton: saveKey(newPrivate,
\* PRIVATE_KEY_NAME) settles.
PageSavedPrivate ==
    /\ page.pc = "savePrivate"
    /\ \E resolved \in BOOLEAN :
        IF resolved
        THEN /\ idb' = saveKey(idb, page.created.newPrivate, PRIVATE_KEY_NAME)
             /\ page' = [page EXCEPT !.pc = "savePublic"]
        ELSE /\ page' = UserSaveFailed(page)
             /\ UNCHANGED idb
    /\ PageUnchanged

\* The click handler of qrCodeSavedButton: saveKey(publicKey,
\* PUBLIC_KEY_NAME) settles.
PageSavedPublic ==
    /\ page.pc = "savePublic"
    /\ \E resolved \in BOOLEAN :
        IF resolved
        THEN /\ idb' = saveKey(idb, page.created.publicKey, PUBLIC_KEY_NAME)
             /\ page' = [page EXCEPT !.pc = "verifyNew"]
        ELSE /\ page' = UserSaveFailed(page)
             /\ UNCHANGED idb
    /\ PageUnchanged

\* The click handler of qrCodeSavedButton: signAndVerify settles (an error
\* is logged), and the timer is set.
PageNewVerified ==
    /\ page.pc = "verifyNew"
    /\ page' = [page EXCEPT !.timer = TRUE, !.pc = "idle"]
    /\ UNCHANGED idb
    /\ PageUnchanged

\* The submit handler of userInfoForm.
userInfoFormSubmitted ==
    /\ "userInfoForm" \in page.listeners
    /\ "userInfoSection" \in page.shown
    /\ page' = [page EXCEPT !.shown = Show(@, {"createUserSection"}, {"userInfoSection"}),
                            !.alert = "InformationSaved"]
    /\ UNCHANGED idb
    /\ PageUnchanged

(***************************************************************************)
(* Specifications                                                          *)
(***************************************************************************)

EmptyDb == [keys |-> EmptyKeys, trusted |-> {}]

\* The key stores a page can find: none, an identity, and the private key
\* of an identity alone.
KeyStores == {EmptyKeys, KeysOf(1), [EmptyKeys EXCEPT ![PRIVATE_KEY_NAME] = OperationalKey(1)]}

VerifierAtRest ==
    /\ now = 0
    /\ jwt = <<>>
    /\ meta = NoMeta
    /\ call = NoCall
    /\ accepted = 0

LoginAtRest ==
    /\ location \in {l \in AppLocations : l.protocol = Str("https:")}
    /\ loginFlow = MountedLoginFlow(<<>>, <<>>)
    /\ redirected = NoRedirect

AuthAtRest ==
    /\ authFlow = MountedAuthFlow
    /\ camera = CameraIdle
    /\ installs = NoInstalls

PageAtRest == page = LoadedPage

BackupAtRest == backup = NoBackup

TrustLogAtRest == trustLog = NoTrustLog

AppAtRest == app = NoApp

LabAtRest == lab = NoLab

InitVerify ==
    /\ VerifierAtRest
    /\ idb = EmptyDb
    /\ LoginAtRest
    /\ AuthAtRest
    /\ PageAtRest /\ BackupAtRest /\ TrustLogAtRest /\ AppAtRest /\ LabAtRest

\* Issued and hand-made tokens before the verifier.
NextVerify ==
    \/ IssueToken
    \/ ForgeToken
    \/ \E k \in KeyPairs : Verify(k)
    \/ Tick

SpecVerify == InitVerify /\ [][NextVerify]_vars

\* Issued tokens, changed on their way to the verifier.
NextTamper ==
    \/ IssueToken
    \/ TamperPayload
    \/ \E k \in KeyPairs : Verify(k)
    \/ Tick

SpecTamper == InitVerify /\ [][NextTamper]_vars

NoUnsupported == call.out.ok \/ call.out.err # "Unsupported"

\* The login page, loaded with a callback parameter.
InitLogin ==
    /\ VerifierAtRest
    /\ idb \in {[keys |-> ks, trusted |-> t] :
                    ks \in KeyStores, t \in SUBSET {Str("https://b/cb")}}
    /\ location \in AppLocations
    /\ loginFlow \in {MountedLoginFlow(raw, data) :
                        raw \in RawCallbackParams, data \in CustomData}
    /\ redirected = NoRedirect
    /\ AuthAtRest
    /\ PageAtRest /\ BackupAtRest /\ TrustLogAtRest /\ AppAtRest /\ LabAtRest

NextLogin ==
    \/ LoginOnMount
    \/ LoginMountLoadedPrivate
    \/ LoginMountLoadedPublic
    \/ LoginMountTrustChecked
    \/ LoginTokenSigned
    \/ LoginRedirected
    \/ LoginHandleConfirm
    \/ LoginConfirmSaved
    \/ LoginConfirmLoadedPrivate
    \/ LoginConfirmLoadedPublic
    \/ LoginHandleCancel
    \/ LoginAccountCreated
    \/ LoginReload

SpecLogin == InitLogin /\ [][NextLogin]_vars

\* The identity page.
InitAuth ==
    /\ VerifierAtRest
    /\ idb \in {[keys |-> ks, trusted |-> {}] : ks \in {EmptyKeys, KeysOf(1)}}
    /\ LoginAtRest
    /\ AuthAtRest
    /\ PageAtRest /\ BackupAtRest /\ TrustLogAtRest /\ AppAtRest /\ LabAtRest

NextAuth ==
    \/ AuthOnMount
    \/ AuthMountLoadedPrivate
    \/ AuthMountLoadedPublic
    \/ AuthMountVerified
    \/ handleCreateUser
    \/ TypePassword
    \/ TypeWrappedKey
    \/ initiateUserCreationProcess
    \/ CreationGenerated
    \/ CreationQrDrawn
    \/ CreationSavedPrivate
    \/ CreationSavedPublic
    \/ handleImportKey
    \/ CameraGranted
    \/ CameraDenied
    \/ QrCodeDetected
    \/ FrameFired
    \/ ScanManualInput
    \/ ScanBack
    \/ BackToInitial
    \/ ImportBack
    \/ QrExportLeave
    \/ initiateUserImportProcess
    \/ ImportUnwrapped
    \/ ImportSavedPrivate
    \/ ImportSavedPublic
    \/ ImportVerified
    \/ AuthReload

SpecAuth == InitAuth /\ [][NextAuth]_vars

\* The page of main.ts.
InitPage ==
    /\ VerifierAtRest
    /\ idb \in {[keys |-> ks, trusted |-> {}] : ks \in KeyStores}
    /\ LoginAtRest
    /\ AuthAtRest
    /\ PageAtRest /\ BackupAtRest /\ TrustLogAtRest /\ AppAtRest /\ LabAtRest

NextPage ==
    \/ initializeAuthFlow
    \/ PageLoadedPrivate
    \/ PageLoadedPublic
    \/ PageVerified
    \/ PageTimeout
    \/ createUserButtonClicked
    \/ PageUserCreated
    \/ PageQrDrawn
    \/ qrCodeSavedButtonClicked
    \/ PageSavedPrivate
    \/ PageSavedPublic
    \/ PageNewVerified
    \/ userInfoFormSubmitted

SpecPage == InitPage /\ [][NextPage]_vars

(***************************************************************************)
(* Wrapping and unwrapping of a private key with a password, and the       *)
(* export and import of an identity (auth.ts).  `backup` holds the         *)
(* arguments and results of the calls, idb the key store of the browser.   *)
(***************************************************************************)
BackupPasswords == {Str("p"), Str("pw"), Str("pw2")}

\* Values crypto.getRandomValues gives for the salt and for the IV.
BackupSalts == {Repeat(17, 16), Repeat(18, 16)}

BackupIvs == {Repeat(51, 12), Repeat(52, 12)}

BackupUnchanged == UNCHANGED <<verifyVars, loginVars, authVars, page, trustLog, app, lab>>

\* salt and iv are the values crypto.getRandomValues gave to the call.
KeyWrappedForBackup(privateKeyToWrap, password, salt, iv, payload) ==
    IF ~payload.ok
    THEN [NoBackup EXCEPT !.stage = "wrapFailed", !.key = privateKeyToWrap,
                          !.password = password, !.salt = salt, !.iv = iv,
                          !.out = payload]
    ELSE [NoBackup EXCEPT !.stage = "wrapped", !.key = privateKeyToWrap,
                          !.password = password, !.salt = salt, !.iv = iv,
                          !.payload = payload.val]

\* wrapPrivateKeyWithPassword(privateKeyToWrap, password) of an extractable
\* signing key.
WrapKey ==
    /\ backup.stage = "none"
    /\ \E k \in KeyPairs, password \in BackupPasswords,
          salt \in BackupSalts, iv \in BackupIvs :
        backup' = KeyWrappedForBackup(
                    PrivateKey(k, TRUE, {"sign"}), password, salt, iv,
                    wrapPrivateKeyWithPassword(PrivateKey(k, TRUE, {"sign"}),
                                               password, salt, iv))
    /\ UNCHANGED idb
    /\ BackupUnchanged

\* unwrapPrivateKeyWithPassword(payload, password) of the payload made.
UnwrapKey ==
    /\ backup.stage = "wrapped"
    /\ \E password \in BackupPasswords :
        backup' = [backup EXCEPT
                     !.stage = "unwrapped", !.with = password,
                     !.out = unwrapPrivateKeyWithPassword(backup.payload, password)]
    /\ UNCHANGED idb
    /\ BackupUnchanged

IdentityGenerated(password, generated) ==
    IF ~generated.ok
    THEN /\ backup' = [NoBackup EXCEPT !.stage = "generateFailed",
                                       !.password = password, !.out = generated]
         /\ UNCHANGED idb
    ELSE /\ backup' = [NoBackup EXCEPT
                         !.stage = "generated", !.password = password,
                         !.key = generated.val.operationalPrivateKey,
                         !.publicKey = generated.val.publicKey,
                         !.wrappedKeyJSON = generated.val.wrappedKeyJSON]
         /\ idb' = saveKey(saveKey(idb, generated.val.operationalPrivateKey,
                                   PRIVATE_KEY_NAME),
                           generated.val.publicKey, PUBLIC_KEY_NAME)

\* generateUserKeysAndWrappedPayload(password), and the two keys saved as
\* initiateUserCreationProcess saves them.
GenerateIdentity ==
    /\ backup.stage = "none"
    /\ \E k \in KeyPairs, password \in BackupPasswords,
          salt \in BackupSalts, iv \in BackupIvs :
        IdentityGenerated(password,
                          generateUserKeysAndWrappedPayload(password, k, salt, iv))
    /\ BackupUnchanged

\* The exported payload is taken to a browser whose key store is empty.
ResetKeystore ==
    /\ backup.stage = "generated"
    /\ backup' = [backup EXCEPT !.stage = "reset"]
    /\ idb' = [idb EXCEPT !.keys = EmptyKeys]
    /\ BackupUnchanged

IdentityImported(password, imported) ==
    /\ backup' = [backup EXCEPT !.stage = "imported", !.with = password,
                                !.out = imported]
    /\ idb' = IF ~imported.ok THEN idb
              ELSE saveKey(saveKey(idb, imported.val.importedPrivateKey,
                                   PRIVATE_KEY_NAME),
                           imported.val.importedPublicKey, PUBLIC_KEY_NAME)

\* unwrapAndImportKeysFromPayload(wrappedKeyJSON, password), and the two
\* keys saved as initiateUserImportProcess saves them.
ImportIdentity ==
    /\ backup.stage = "reset"
    /\ \E password \in BackupPasswords :
        IdentityImported(password,
                         unwrapAndImportKeysFromPayload(backup.wrappedKeyJSON,
                                                        password))
    /\ BackupUnchanged

\* The results are dropped and the key store emptied for the next calls.
ForgetBackup ==
    /\ backup.stage \in {"unwrapped", "imported"}
    /\ backup' = NoBackup
    /\ idb' = [idb EXCEPT !.keys = EmptyKeys]
    /\ BackupUnchanged

InitBackup ==
    /\ VerifierAtRest
    /\ idb = EmptyDb
    /\ LoginAtRest
    /\ AuthAtRest
    /\ PageAtRest /\ BackupAtRest /\ TrustLogAtRest /\ AppAtRest /\ LabAtRest

NextBackup ==
    \/ WrapKey
    \/ UnwrapKey
    \/ GenerateIdentity
    \/ ResetKeystore
    \/ ImportIdentity
    \/ ForgetBackup

SpecBackup == InitBackup /\ [][NextBackup]_vars

(***************************************************************************)
(* The store of trusted callback URLs (indexedDB.ts).  trustLog records    *)
(* the calls made: the URLs saveTrustedCallbackUrl was called with, the    *)
(* URL of the last save and how many times in a row it was saved, and the  *)
(* last isCallbackUrlTrusted call with its answer.                         *)
(***************************************************************************)
TrustUrls ==
    {Str("https://b/cb"), Str("https://b/cb/"), Str("https://b/other"),
     Str("https://b/"), Str("https://c/cb")}

TrustUnchanged == UNCHANGED <<verifyVars, loginVars, authVars, page, backup, app, lab>>

\* saveTrustedCallbackUrl(url): store.put(true, url) succeeds.
TrustSave ==
    /\ \E url \in TrustUrls :
        /\ idb' = saveTrustedCallbackUrl(idb, url)
        /\ trustLog' = [confirmed |-> trustLog.confirmed \cup {url},
                        saved |-> url,
                        times |-> IF trustLog.saved = url THEN 2 ELSE 1,
                        asked |-> <<>>, answer |-> FALSE]
    /\ TrustUnchanged

\* isCallbackUrlTrusted(url): !!result of store.get(url).
TrustAsk ==
    /\ \E url \in TrustUrls :
        trustLog' = [trustLog EXCEPT !.asked = url,
                                     !.answer = isCallbackUrlTrusted(idb, url)]
    /\ UNCHANGED idb
    /\ TrustUnchanged

InitTrust ==
    /\ VerifierAtRest
    /\ idb = EmptyDb
    /\ LoginAtRest
    /\ AuthAtRest
    /\ PageAtRest /\ BackupAtRest /\ TrustLogAtRest /\ AppAtRest /\ LabAtRest

NextTrust ==
    \/ TrustSave
    \/ TrustAsk

SpecTrust == InitTrust /\ [][NextTrust]_vars

(***************************************************************************)
(* App.svelte: the view chosen from the address, and the props handed to   *)
(* LoginFlow.                                                              *)
(***************************************************************************)
\* A query parameter as URLSearchParams.get gives it: null when the address
\* has none of that name, a string otherwise.
Param(s) == [type |-> "string", s |-> s]

AppPathnames == {Str("/login"), Str("/"), Str("/login/")}

AppCallbacks == {Null, Param(<<>>), Param(Str("https://b/cb")), Param(Str("https://c"))}

AppPayloads == {Null, Param(<<>>), Param(Str("d\"1"))}

OpenedApp(pathname, callback, payload) ==
    [NoApp EXCEPT !.pc = "onMount", !.pathname = pathname,
                  !.callback = callback, !.payload = payload]

\* LoginFlow before the App has rendered it.
UnmountedLoginFlow == [MountedLoginFlow(<<>>, <<>>) EXCEPT !.pc = "unmounted"]

\* <LoginFlow {rawCallbackParamForLoginFlow} />: the props of the component.
LoginFlowProps(a) ==
    [name \in {"rawCallbackParamForLoginFlow"} |-> a.rawCallbackParamForLoginFlow]

\* A name destructured from $props(): undefined when no prop has the name.
PropRead(props, name) == IF name \in DOMAIN props THEN props[name] ELSE Undefined

\* The text of a prop; null, undefined and the empty string are all falsy.
PropText(v) == IF v.type = "string" THEN v.s ELSE <<>>

AppUnchanged ==
    UNCHANGED <<verifyVars, idb, location, redirected, authVars,
                page, backup, trustLog, lab>>

\* onMount of App.svelte.
AppOnMount ==
    /\ app.pc = "onMount"
    /\ app' = IF app.pathname = Str("/login")
              THEN [app EXCEPT !.rawCallbackParamForLoginFlow = app.callback,
                               !.currentView = "loginFlow", !.pc = "render"]
              ELSE [app EXCEPT !.currentView = "authFlow", !.pc = "render"]
    /\ UNCHANGED loginFlow
    /\ AppUnchanged

\* The view is rendered: LoginFlow is constructed with its props, or
\* AuthFlow is.
AppRender ==
    /\ app.pc = "render"
    /\ app' = [app EXCEPT !.pc = "rendered"]
    /\ loginFlow' =
        IF app.currentView = "loginFlow"
        THEN MountedLoginFlow(
                PropText(PropRead(LoginFlowProps(app), "rawCallbackParam")),
                PropText(PropRead(LoginFlowProps(app), "loginPayloadData")))
        ELSE loginFlow
    /\ AppUnchanged

InitApp ==
    /\ VerifierAtRest
    /\ idb \in {[keys |-> ks, trusted |-> t] :
                    ks \in KeyStores, t \in SUBSET {Str("https://b/cb")}}
    /\ location \in AppLocations
    /\ loginFlow = UnmountedLoginFlow
    /\ redirected = NoRedirect
    /\ AuthAtRest
    /\ PageAtRest /\ BackupAtRest /\ TrustLogAtRest /\ LabAtRest
    /\ app \in {OpenedApp(pathname, callback, payload) :
                    pathname \in AppPathnames, callback \in AppCallbacks,
                    payload \in AppPayloads}

\* Of the handlers of LoginFlow only onMount is listed: it ends in the error
\* step for every address (the invariant LoginFlowStopsAtMount), so none of
\* the others is ever enabled.
NextApp ==
    \/ AppOnMount
    \/ AppRender
    \/ LoginOnMount

SpecApp == InitApp /\ [][NextApp]_vars

(***************************************************************************)
(* Calls of importJwkAsKeys and of extractPublicKeyFromJWK (auth.ts) on    *)
(* JWKs of all kinds.  `lab` holds the argument of the call, its result,   *)
(* and the keys crypto.subtle.importKey has made during the call.          *)
(***************************************************************************)
\* The keys the importKey calls of importJwkAsKeys(jwk) make, in the order
\* of the code: none if the check of the structure throws, the private key
\* if its import succeeds, and then the public key if the point is built
\* and its import succeeds.
PublicKeysImported(jwk, uncompressedPoint) ==
    IF ~uncompressedPoint.ok THEN {}
    ELSE IF subtleImportRaw(uncompressedPoint.val, Prop(jwk, Str("crv"))).ok
    THEN {subtleImportRaw(uncompressedPoint.val, Prop(jwk, Str("crv"))).val}
    ELSE {}

PrivateKeysImported(jwk, importedPrivateKey) ==
    IF ~importedPrivateKey.ok THEN {}
    ELSE {importedPrivateKey.val}
            \cup PublicKeysImported(jwk, extractPublicKeyFromJWK(jwk))

KeysImported(jwk) ==
    IF \/ Prop(jwk, Str("kty")) # JStr(Str("EC"))
       \/ Falsy(Prop(jwk, Str("crv")))
       \/ Falsy(Prop(jwk, Str("x")))
       \/ Falsy(Prop(jwk, Str("y")))
       \/ Falsy(Prop(jwk, Str("d")))
    THEN {}
    ELSE PrivateKeysImported(
            jwk, subtleImportJwk(jwk, Prop(jwk, Str("crv")), FALSE, {"sign"}))

\* A JavaScript object without the property `key`, and with it set to v.
WithoutMember(obj, key) ==
    JObj(SelectSeq(obj.members, LAMBDA m : m.k # key))

WithMember(obj, key, v) == JObj(Append(WithoutMember(obj, key).members, Member(key, v)))

\* A private JWK as exportKey gives it for a key pair.
PrivateJwk(k) == subtleExportJwk(PrivateKey(k, TRUE, {"sign"})).val

JwkMemberNames == {Str("kty"), Str("crv"), Str("x"), Str("y"), Str("d")}

\* What a member of a JWK is replaced with: another key type, curves the
\* platform does not know or knows, the empty string and null.
JwkReplacements ==
    {<<Str("kty"), JStr(Str("RSA"))>>, <<Str("kty"), JStr(Str("oct"))>>,
     <<Str("crv"), JStr(Str("P-999"))>>, <<Str("crv"), JStr(Str("P-521"))>>,
     <<Str("crv"), JStr(Str("P-256"))>>, <<Str("crv"), JStr(<<>>)>>,
     <<Str("crv"), JNull>>,
     <<Str("x"), JStr(<<>>)>>, <<Str("y"), JNull>>, <<Str("d"), JStr(<<>>)>>}

\* The JWKs handed to importJwkAsKeys: exported private keys of P-384 and
\* of P-256, as they are, with a member taken out, and with a member
\* replaced.
JwkInputs ==
    {PrivateJwk(k) : k \in KeyPairs \cup P256Pairs}
        \cup {WithoutMember(PrivateJwk(k), name) :
                k \in KeyPairs \cup P256Pairs, name \in JwkMemberNames}
        \cup {WithMember(PrivateJwk(k), r[1], r[2]) :
                k \in KeyPairs \cup P256Pairs, r \in JwkReplacements}

\* Coordinates of 1 to 66 bytes, whose bytes tell their position.
CoordinateLengths == {1, 32, 47, 48, 49, 66}

XBytes(n) == [i \in 1..n |-> i]

YBytes(n) == [i \in 1..n |-> 100 + i]

\* The JWKs handed to extractPublicKeyFromJWK: coordinates of all lengths
\* next to the private scalar of a key pair, the JWK of a key pair, the
\* scalar of one pair with the point of another, and a JWK without x.
PointInputs ==
    {WithMember(WithMember(PrivateJwk(k), Str("x"),
                           JStr(arrayBufferToBase64Url(XBytes(n)))),
                Str("y"), JStr(arrayBufferToBase64Url(YBytes(m)))) :
        k \in KeyPairs, n \in CoordinateLengths, m \in CoordinateLengths}
        \cup {WithMember(PrivateJwk(k), Str("d"),
                         JStr(arrayBufferToBase64Url(ScalarD(other)))) :
                k \in KeyPairs, other \in KeyPairs}
        \cup {WithoutMember(PrivateJwk(k), Str("x")) : k \in KeyPairs}

LabUnchanged ==
    UNCHANGED <<verifyVars, idb, loginVars, authVars, page, backup, trustLog, app>>

\* importJwkAsKeys(jwk)
CallImportJwkAsKeys ==
    /\ lab.fn = "none"
    /\ \E jwk \in JwkInputs :
        lab' = [fn |-> "importJwkAsKeys", arg |-> jwk,
                out |-> importJwkAsKeys(jwk), imported |-> KeysImported(jwk)]
    /\ LabUnchanged

\* extractPublicKeyFromJWK(jwk)
CallExtractPublicKey ==
    /\ lab.fn = "none"
    /\ \E jwk \in PointInputs :
        lab' = [fn |-> "extractPublicKeyFromJWK", arg |-> jwk,
                out |-> extractPublicKeyFromJWK(jwk), imported |-> {}]
    /\ LabUnchanged

\* The caller has taken the result.
LabReturn ==
    /\ lab.fn # "none"
    /\ lab' = NoLab
    /\ LabUnchanged

InitKeys ==
    /\ VerifierAtRest
    /\ idb = EmptyDb
    /\ LoginAtRest
    /\ AuthAtRest
    /\ PageAtRest /\ BackupAtRest /\ TrustLogAtRest /\ AppAtRest /\ LabAtRest

NextKeys ==
    \/ CallImportJwkAsKeys
    \/ CallExtractPublicKey
    \/ LabReturn

SpecKeys == InitKeys /\ [][NextKeys]_vars

(***************************************************************************)
(* The login page with the identity component it shows in the              *)
(* accountCreationRequired step (LoginFlow.svelte line 147), on one key    *)
(* store.                                                                  *)
(***************************************************************************)

InitInstall ==
    /\ VerifierAtRest
    /\ idb \in {[keys |-> ks, trusted |-> t] :
                    ks \in KeyStores, t \in SUBSET {Str("https://b/cb")}}
    /\ location \in {l \in AppLocations : l.protocol = Str("https:")}
    /\ loginFlow \in {MountedLoginFlow(Str("https://b/cb"), data) : data \in CustomData}
    /\ redirected = NoRedirect
    /\ AuthAtRest
    /\ PageAtRest /\ BackupAtRest /\ TrustLogAtRest /\ AppAtRest /\ LabAtRest

NextInstall ==
    \/ LoginOnMount
    \/ LoginMountLoadedPrivate
    \/ LoginMountLoadedPublic
    \/ LoginMountTrustChecked
    \/ LoginTokenSigned
    \/ LoginRedirected
    \/ LoginReload
    \/ AuthOnMount
    \/ AuthMountLoadedPrivate
    \/ AuthMountLoadedPublic
    \/ AuthMountVerified
    \/ handleCreateUser
    \/ TypePassword
    \/ initiateUserCreationProcess
    \/ CreationGenerated
    \/ CreationQrDrawn
    \/ CreationSavedPrivate
    \/ CreationSavedPublic
    \/ BackToInitial
    \/ QrExportLeave

SpecInstall == InitInstall /\ [][NextInstall]_vars

(***************************************************************************)
(* One page of the application under fair scheduling: the login page with  *)
(* LoginFlow, or the identity page with AuthFlow.  A promise of the key    *)
(* store, of crypto.subtle or of the QR code library that a handler awaits *)
(* settles, and the handler goes on; the user is under no obligation, and  *)
(* neither is the camera prompt, which on this page is never granted: a    *)
(* call of getUserMedia stays pending or is rejected.                      *)
(***************************************************************************)

\* AuthFlow where no page has rendered it.
UnmountedAuthFlow == [MountedAuthFlow EXCEPT !.mounting = "unmounted"]

\* The continuations of LoginFlow after an await, and its onMount.
LoginSettles ==
    \/ LoginOnMount
    \/ LoginMountLoadedPrivate
    \/ LoginMountLoadedPublic
    \/ LoginMountTrustChecked
    \/ LoginTokenSigned
    \/ LoginRedirected
    \/ LoginConfirmSaved
    \/ LoginConfirmLoadedPrivate
    \/ LoginConfirmLoadedPublic

\* The continuations of AuthFlow after an await, and its onMount.
AuthSettles ==
    \/ AuthOnMount
    \/ AuthMountLoadedPrivate
    \/ AuthMountLoadedPublic
    \/ AuthMountVerified
    \/ CreationGenerated
    \/ CreationQrDrawn
    \/ CreationSavedPrivate
    \/ CreationSavedPublic
    \/ ImportUnwrapped
    \/ ImportSavedPrivate
    \/ ImportSavedPublic
    \/ ImportVerified

InitProgress ==
    /\ VerifierAtRest
    /\ redirected = NoRedirect
    /\ camera = CameraIdle
    /\ installs = NoInstalls
    /\ PageAtRest /\ BackupAtRest /\ TrustLogAtRest /\ AppAtRest /\ LabAtRest
    /\ \/ /\ idb \in {[keys |-> ks, trusted |-> t] :
                        ks \in KeyStores, t \in SUBSET {Str("https://b/cb")}}
          /\ location \in AppLocations
          /\ loginFlow \in {MountedLoginFlow(raw, data) :
                              raw \in RawCallbackParams, data \in CustomData}
          /\ authFlow = UnmountedAuthFlow
       \/ /\ idb \in {[keys |-> ks, trusted |-> {}] : ks \in KeyStores}
          /\ location \in {l \in AppLocations : l.protocol = Str("https:")}
          /\ loginFlow = UnmountedLoginFlow
          /\ authFlow = MountedAuthFlow

NextProgress ==
    \/ LoginOnMount
    \/ LoginMountLoadedPrivate
    \/ LoginMountLoadedPublic
    \/ LoginMountTrustChecked
    \/ LoginTokenSigned
    \/ LoginRedirected
    \/ LoginHandleConfirm
    \/ LoginConfirmSaved
    \/ LoginConfirmLoadedPrivate
    \/ LoginConfirmLoadedPublic
    \/ LoginHandleCancel
    \/ LoginAccountCreated
    \/ LoginReload
    \/ AuthOnMount
    \/ AuthMountLoadedPrivate
    \/ AuthMountLoadedPublic
    \/ AuthMountVerified
    \/ handleCreateUser
    \/ TypePassword
    \/ TypeWrappedKey
    \/ initiateUserCreationProcess
    \/ CreationGenerated
    \/ CreationQrDrawn
    \/ CreationSavedPrivate
    \/ CreationSavedPublic
    \/ handleImportKey
    \/ CameraDenied
    \/ ScanManualInput
    \/ ScanBack
    \/ BackToInitial
    \/ ImportBack
    \/ QrExportLeave
    \/ initiateUserImportProcess
    \/ ImportUnwrapped
    \/ ImportSavedPrivate
    \/ ImportSavedPublic
    \/ ImportVerified
    \/ AuthReload

SpecProgress ==
    /\ InitProgress
    /\ [][NextProgress]_vars
    /\ WF_vars(LoginSettles)
    /\ WF_vars(AuthSettles)

\* Under App.svelte, LoginFlow never gets past the check of its callback.
LoginFlowStopsAtMount ==
    /\ loginFlow.pc \in {"unmounted", "onMount", "idle"}
    /\ loginFlow.pc = "idle" => loginFlow.currentStep = "error"
    /\ loginFlow.jwtToken = <<>>
    /\ redirected = NoRedirect

(***************************************************************************)
(* The login token: claims C3 to C8                                        *)
(***************************************************************************)

\* What is true of jwt by the way it was made.
StructureOk == meta.nseg = 3

AlgorithmOk == meta.header = "good"

HasNumericExp == meta.payload = "object" /\ meta.exp.t = "num"

ExpiredAt(t) == HasNumericExp /\ meta.exp.m <= t

UnexpiredAt(t) == HasNumericExp /\ meta.exp.m > t

SignatureOk ==
    /\ meta.kind \in {"issued", "forged"}
    /\ meta.sig = "key"
    /\ meta.signer = call.key

CallError == IF call.out.ok THEN "none" ELSE call.out.err

\* C3 (as the specification states it): verifyLoginJWT returns a payload only
\* when the token has three segments, its header names ES384 and JWT, its exp
\* is strictly greater than the current time and its signature is valid under
\* the given public key.
C3_AcceptedOnlyIfValid ==
    (call.made /\ call.out.ok) =>
        StructureOk /\ AlgorithmOk /\ UnexpiredAt(call.at) /\ SignatureOk

\* C4: the checks run in the order structure, algorithm, expiry, signature;
\* the first one violated is the one reported, and the signature primitive
\* is not invoked when an earlier check fails.
C4_CheckOrder ==
    call.made =>
        /\ ~StructureOk => (CallError = "NotThreeParts" /\ call.out.sigCalls = 0)
        /\ (StructureOk /\ meta.header \in {"alg", "typ"})
                => (CallError = "InvalidHeader" /\ call.out.sigCalls = 0)
        /\ (StructureOk /\ AlgorithmOk /\ ExpiredAt(call.at))
                => (CallError = "TokenExpired" /\ call.out.sigCalls = 0)
        /\ (StructureOk /\ AlgorithmOk /\ meta.payload = "object" /\ ~ExpiredAt(call.at)
                /\ meta.sig \in {"key", "garbage"} /\ ~SignatureOk)
                => (CallError = "SignatureFailed" /\ call.out.sigCalls = 1)
        /\ call.out.sigCalls = 1
                => (StructureOk /\ AlgorithmOk /\ ~ExpiredAt(call.at))
        /\ call.out.sigCalls \in {0, 1}

\* A token that violates the algorithm, the expiry and the signature check
\* at once is reported as InvalidHeader, without any signature verification.
C4_Witness ==
    /\ call.made
    /\ StructureOk /\ meta.header = "alg" /\ ExpiredAt(call.at) /\ meta.sig = "garbage"
    /\ CallError = "InvalidHeader"
    /\ call.out.sigCalls = 0

\* C5: a token that is valid but for its expiry is rejected as expired when
\* exp <= now, and accepted when exp > now (exp = now + 1 included).
C5_ExpiryBoundary ==
    (call.made /\ StructureOk /\ AlgorithmOk /\ HasNumericExp /\ SignatureOk) =>
        /\ meta.exp.m <= call.at => CallError = "TokenExpired"
        /\ meta.exp.m > call.at => call.out.ok

\* An issued token presented at the very second of its exp is rejected.
C5_Witness ==
    /\ call.made /\ meta.kind = "issued" /\ SignatureOk
    /\ meta.exp.m = call.at
    /\ CallError = "TokenExpired"

\* C6 (as the specification states it): a changed byte of the payload
\* segment makes verifyLoginJWT with the matching key fail with
\* InvalidSignature.
C6_TamperedIsInvalidSignature ==
    (call.made /\ meta.kind = "tampered" /\ call.key = meta.signer) =>
        CallError = "SignatureFailed"

\* C6 (amended): a token with a changed byte in its payload segment is never
\* accepted: the signature check fails, or an earlier step fails before the
\* signature primitive is invoked (the token no longer has three segments,
\* the payload no longer decodes, or its exp no longer exceeds now).
C6_TamperedIsRejected ==
    (call.made /\ meta.kind = "tampered") =>
        /\ ~call.out.ok
        /\ \/ CallError = "SignatureFailed" /\ call.out.sigCalls = 1
           \/ /\ CallError \in {"NotThreeParts", "InvalidCharacterError",
                                 "SyntaxError", "TokenExpired"}
              /\ call.out.sigCalls = 0

C6_Witness ==
    /\ call.made /\ meta.kind = "tampered" /\ call.key = meta.signer
    /\ CallError = "SignatureFailed"

\* C7: a token issued for a callback URL at iat, verified with the matching
\* public key before iat + 86400, yields a payload with sub equal to that
\* URL and exp equal to iat + 86400.
C7_RoundTrip ==
    (call.made /\ meta.kind = "issued" /\ call.key = meta.signer
        /\ call.at < meta.iat + 86400) =>
        /\ call.out.ok
        /\ Prop(call.out.payload, Str("sub")) = JStr(meta.url)
        /\ Prop(call.out.payload, Str("iat")) = JNum(meta.iat)
        /\ Prop(call.out.payload, Str("exp")) = JNum(meta.iat + 86400)

\* A token with custom data, accepted in the last second of its life.
C7_Witness ==
    /\ call.made /\ meta.kind = "issued" /\ call.key = meta.signer
    /\ meta.custom # <<>>
    /\ call.at = meta.iat + 86399
    /\ call.out.ok
    /\ Prop(call.out.payload, Str("cstm_dat")) = JStr(meta.custom)

SubjectOf(token) ==
    Prop(JSONparse(TextDecode(base64UrlToArrayBuffer(Split(token, 46)[2]).val)).val,
         Str("sub"))

InvalidCallback ==
    LET raw == loginFlow.rawCallbackParam
        parsed == ParseURL(raw)
    IN  \/ raw = <<>>
        \/ ~parsed.ok
        \/ parsed.val.host = location.host
        \/ location.protocol = Str("https:") /\ parsed.val.protocol # Str("https:")

\* C2: with an invalid callback parameter LoginFlow ends in the error step
\* and has not loaded the keys, not read or written the trusted-callback
\* store, not signed a token and not redirected.
C2_InvalidCallbackStops ==
    (InvalidCallback /\ loginFlow.pc # "onMount") =>
        /\ loginFlow.currentStep = "error"
        /\ loginFlow.pc = "idle"
        /\ loginFlow.effects = {}
        /\ loginFlow.jwtToken = <<>>
        /\ redirected = NoRedirect

\* A callback of the application's own host, with an identity in the key
\* store, has ended in the error step.
C2_Witness ==
    /\ loginFlow.rawCallbackParam = Str("HTTPS://A:443")
    /\ loginFlow.currentStep = "error"
    /\ loginFlow.errorMessage = "SameHost"
    /\ ~Missing(idb.keys[PRIVATE_KEY_NAME])
    /\ ~Missing(idb.keys[PUBLIC_KEY_NAME])

(***************************************************************************)
(* Identity installation: claims C9 and C10                                *)
(***************************************************************************)

\* C9 (as the specification states it): when the write of the private key
\* has succeeded and the write of the public key has failed, the attempt
\* ends in the error step and the key store does not hold the new private
\* key without the matching new public key.
C9_AllOrNothing ==
    (installs.partial # 0 /\ ~InFlight(authFlow.creating) /\ ~InFlight(authFlow.importing)) =>
        ~(/\ PairOf(idb.keys[PRIVATE_KEY_NAME]) = installs.partial
          /\ PairOf(idb.keys[PUBLIC_KEY_NAME]) # installs.partial)

\* C10 (as the specification states it): while a creation or an import is
\* in flight the step is 'loading', and no second creation or import is in
\* flight with it.
C10_OneInFlight ==
    /\ ~(InFlight(authFlow.creating) /\ InFlight(authFlow.importing))
    /\ (InFlight(authFlow.creating) \/ InFlight(authFlow.importing))
            => authFlow.currentStep = "loading"

(***************************************************************************)
(* The QR capture loop: claim C11                                          *)
(***************************************************************************)

\* C11 (as the specification states it): once scanning has ended, by a scan,
\* by Back or Manual Input, or by a failure of the camera, no media stream
\* is held and no frame callback is scheduled.
C11_ScanStoppable ==
    ~authFlow.isScanning => (~authFlow.mediaStream /\ ~authFlow.animationFrameId)

(***************************************************************************)
(* The keys in the key store: claim C12                                    *)
(***************************************************************************)

\* C12: the key stored under userPrivateKey is a private key that is not
\* extractable and can only sign, the key stored under userPublicKey is a
\* public key that is extractable and can only verify, whether a creation
\* or an import wrote it; and no handler is about to write anything else.
C12_StoredKeyForms ==
    /\ LET stored == idb.keys[PRIVATE_KEY_NAME]
       IN  Missing(stored)
            \/ (stored.type = "private" /\ ~stored.extractable /\ stored.usages = {"sign"})
    /\ LET stored == idb.keys[PUBLIC_KEY_NAME]
       IN  Missing(stored)
            \/ (stored.type = "public" /\ stored.extractable /\ stored.usages = {"verify"})
    /\ \A activation \in {authFlow.creating, authFlow.importing} :
        /\ activation.pc = "savePrivate"
            => (activation.saving.type = "private" /\ ~activation.saving.extractable)
        /\ activation.pc = "savePublic" => activation.saving.type = "public"

\* After a creation has drawn a QR code, an import has written both keys of
\* the backup it unwrapped and is verifying them.
C12_Witness ==
    /\ authFlow.importing.pc = "signAndVerify"
    /\ authFlow.qrCodeImageDataUrl # <<>>
    /\ idb.keys[PRIVATE_KEY_NAME] = authFlow.userPrivateKey
    /\ idb.keys[PUBLIC_KEY_NAME] = authFlow.userPublicKey
    /\ PairOf(idb.keys[PRIVATE_KEY_NAME]) = PairOf(idb.keys[PUBLIC_KEY_NAME])

(***************************************************************************)
(* The retry after a wrong password: claim C16                             *)
(***************************************************************************)

\* The import in flight was given a backup and a password that does not
\* open it: unwrapKey fails the check of the GCM tag.
WrongPasswordGiven ==
    /\ authFlow.importing.pc = "unwrap"
    /\ LET imported == ImportedKeys[authFlow.importing.wrapped, authFlow.importing.password]
       IN  ~imported.ok /\ imported.err = "OperationError"

\* C16 (as the specification states it): the step in which an import fails
\* on a wrong password leaves the wrapped payload the flow holds as it was,
\* neither cleared nor changed.
C16_PayloadKeptForRetry ==
    [][WrongPasswordGiven /\ authFlow'.importing.pc = "idle"
        => authFlow'.wrappedKeyForImport = authFlow.wrappedKeyForImport]_vars

(***************************************************************************)
(* The trusted-callback store under LoginFlow: claims C19 and C20          *)
(***************************************************************************)

\* C19: no step of the login page takes a URL out of the trusted-callback
\* store: neither a login, nor a confirmation or a cancellation for any
\* URL, nor the installation of an identity.
C19_TrustAppendOnly == [][idb.trusted \subseteq idb'.trusted]_vars

\* A URL was trusted before this login; the user has confirmed another one
\* and both are trusted.
C19_Witness ==
    /\ "saveTrustedCallbackUrl" \in loginFlow.effects
    /\ loginFlow.parsedCallbackUrl.href = Str("https://b/other")
    /\ {Str("https://b/cb"), Str("https://b/other")} \subseteq idb.trusted

\* The callback URL of the page, as LoginFlow hands it to the store, is in
\* the trusted-callback store.
CallbackTrusted ==
    LET parsed == ParseURL(loginFlow.rawCallbackParam)
    IN  /\ loginFlow.rawCallbackParam # <<>>
        /\ parsed.ok
        /\ parsed.val.href \in idb.trusted

NothingIssued ==
    /\ loginFlow.jwtToken = <<>>
    /\ redirected = NoRedirect
    /\ loginFlow.pc \notin {"proceed:sign", "proceed:export", "done"}

QrText(dataUrl) ==
    TextDecode(atob(SubSeq(dataUrl, Len(Str("data:image/png;base64,")) + 1,
                           Len(dataUrl))).val)

\* The text is a wrapped payload: an object with salt, iv and cipherText and
\* without the private scalar d of a JWK.
IsWrappedPayloadText(text) ==
    LET parsed == JSONparse(text)
    IN  /\ parsed.ok
        /\ parsed.val.t = "obj"
        /\ \A name \in {"salt", "iv", "cipherText"} :
            Prop(parsed.val, Str(name)).t = "str"
        /\ Prop(parsed.val, Str("d")).t = "undefined"

\* C13 (as the specification states it): every QR code a flow has drawn and
\* every text it offers for export encodes a wrapped payload, never the
\* private JWK.
C13_OnlyWrappedBackupLeaves ==
    /\ \A dataUrl \in {authFlow.qrCodeImageDataUrl, page.qrCodeImage} \ {<<>>} :
        IsWrappedPayloadText(QrText(dataUrl))
    /\ authFlow.wrappedKeyForExport # <<>>
        => IsWrappedPayloadText(authFlow.wrappedKeyForExport)

\* C14: unwrapping a wrapped private key with the password it was wrapped
\* with gives a key equal to the wrapped one, with the same exported JWK.
C14_WrapRoundTrip ==
    (backup.stage = "unwrapped" /\ backup.with = backup.password)
    => /\ backup.out.ok
       /\ backup.out.val = backup.key
       /\ subtleExportJwk(backup.out.val) = subtleExportJwk(backup.key)

C14_Witness ==
    /\ backup.stage = "unwrapped"
    /\ backup.password = Str("pw2")
    /\ backup.with = Str("pw2")
    /\ backup.key = PrivateKey(2, TRUE, {"sign"})
    /\ backup.out.ok

\* C15: unwrapping a wrapped private key with any other password is
\* rejected by the check of the GCM tag and gives no key.
C15_WrongPasswordFails ==
    (backup.stage = "unwrapped" /\ backup.with # backup.password)
    => /\ ~backup.out.ok
       /\ backup.out.err = "OperationError"

C15_Witness ==
    /\ backup.stage = "unwrapped"
    /\ backup.password = Str("pw")
    /\ backup.with = Str("p")
    /\ ~backup.out.ok

\* C17: an identity generated, exported under a password and imported with
\* the same password into an empty key store ends with a stored public key
\* of the same SPKI digest as the generated one and a stored private key
\* whose signature verifies under it.
C17_ExportImportPreservesIdentity ==
    (backup.stage = "imported" /\ backup.with = backup.password)
    => /\ backup.out.ok
       /\ ~Missing(loadKey(idb, PUBLIC_KEY_NAME))
       /\ ~Missing(loadKey(idb, PRIVATE_KEY_NAME))
       /\ getPublicKeyDigest(loadKey(idb, PUBLIC_KEY_NAME)).ok
       /\ getPublicKeyDigest(loadKey(idb, PUBLIC_KEY_NAME))
            = getPublicKeyDigest(backup.publicKey)
       /\ signAndVerify(loadKey(idb, PRIVATE_KEY_NAME),
                        loadKey(idb, PUBLIC_KEY_NAME)) = [ok |-> TRUE, val |-> TRUE]
       /\ signAndVerify(loadKey(idb, PRIVATE_KEY_NAME),
                        backup.publicKey) = [ok |-> TRUE, val |-> TRUE]

C17_Witness ==
    /\ backup.stage = "imported"
    /\ backup.password = Str("pw2")
    /\ backup.with = Str("pw2")
    /\ backup.publicKey = PublicKey(2)
    /\ backup.out.ok
    /\ loadKey(idb, PUBLIC_KEY_NAME) = PublicKey(2)

\* C18: a callback URL saved once or twice in a row is trusted, and a URL
\* that was never saved is not, whatever URLs differing from it by path or
\* by a trailing slash were saved.
C18_TrustIdempotentExact ==
    /\ trustLog.times \in {1, 2} => isCallbackUrlTrusted(idb, trustLog.saved)
    /\ \A url \in TrustUrls :
        isCallbackUrlTrusted(idb, url) <=> url \in trustLog.confirmed
    /\ trustLog.asked # <<>>
        => (trustLog.answer <=> trustLog.asked \in trustLog.confirmed)

C18_Witness ==
    /\ trustLog.times = 2
    /\ trustLog.saved = Str("https://b/cb")
    /\ trustLog.confirmed = {Str("https://b/cb"), Str("https://b/")}
    /\ trustLog.asked = Str("https://b/cb/")
    /\ ~trustLog.answer
    /\ ~isCallbackUrlTrusted(idb, Str("https://b/other"))

C22_RouteContract ==
    (app.pc = "rendered" /\ app.pathname = Str("/login") /\ app.callback.type = "string")
    => /\ app.currentView = "loginFlow"
       /\ loginFlow.rawCallbackParam = app.callback.s
       /\ loginFlow.loginPayloadData = PropText(app.payload)

\* The payload of the token at hand, as its second segment decodes.
IssuedPayload ==
    JSONparse(TextDecode(base64UrlToArrayBuffer(Split(jwt, 46)[2]).val)).val

\* C23: the payload of every issued token has exactly the claims sub, iat
\* and exp, with exp = iat + 86400, and cstm_dat exactly when custom data
\* was supplied; it has no iss claim.
C23_PayloadClaims ==
    meta.kind = "issued"
    => /\ IssuedPayload.t = "obj"
       /\ {IssuedPayload.members[i].k : i \in 1..Len(IssuedPayload.members)}
            = {Str("sub"), Str("iat"), Str("exp")}
                \cup (IF meta.custom # <<>> THEN {Str("cstm_dat")} ELSE {})
       /\ Prop(IssuedPayload, Str("iss")) = JUndefined
       /\ Prop(IssuedPayload, Str("sub")) = JStr(meta.url)
       /\ Prop(IssuedPayload, Str("iat")) = JNum(meta.iat)
       /\ Prop(IssuedPayload, Str("exp")) = JNum(meta.iat + 86400)

\* The defects the check of importJwkAsKeys looks for: the key type is not
\* EC, or the curve name, x, y or d is missing.
JwkIncomplete(jwk) ==
    \/ Prop(jwk, Str("kty")) # JStr(Str("EC"))
    \/ \E name \in {Str("crv"), Str("x"), Str("y"), Str("d")} :
        Prop(jwk, name) \in {JUndefined, JNull, JStr(<<>>)}

\* The curve of the JWK is not the curve of the application.
JwkOfOtherCurve(jwk) == Prop(jwk, Str("crv")) # JStr(Str("P-384"))

\* C24, as stated: importJwkAsKeys fails before any key is imported when
\* the JWK is not an EC key, lacks the curve name, x, y or d, or names a
\* curve other than P-384.
C24_FailsBeforeAnyImport ==
    (lab.fn = "importJwkAsKeys" /\ (JwkIncomplete(lab.arg) \/ JwkOfOtherCurve(lab.arg)))
    => /\ ~lab.out.ok
       /\ lab.imported = {}

\* C24, amended: importJwkAsKeys returns no key when the JWK is not an EC
\* key, lacks the curve name, x, y or d, or names a curve other than P-384.
\* For an incomplete JWK it throws its own error before any import, and
\* for a curve the platform does not know the first import fails; for a
\* key of another curve of the platform the private key is imported before
\* the import of the public key fails.
C24_InvalidJwkGivesNoKey ==
    (lab.fn = "importJwkAsKeys" /\ (JwkIncomplete(lab.arg) \/ JwkOfOtherCurve(lab.arg)))
    => /\ ~lab.out.ok
       /\ JwkIncomplete(lab.arg) => (lab.out.err = "Error" /\ lab.imported = {})
       /\ Prop(lab.arg, Str("crv")) \notin NamedCurves => lab.imported = {}
       /\ \A key \in lab.imported : key.type = "private"

C24_Witness ==
    /\ lab.fn = "importJwkAsKeys"
    /\ lab.arg = WithoutMember(PrivateJwk(1), Str("d"))
    /\ lab.out = Thrown("Error")
    /\ lab.imported = {}

\* A P-256 key: its private key is imported, then the call fails.
C24_ImportedBeforeFailure ==
    /\ lab.fn = "importJwkAsKeys"
    /\ lab.arg = PrivateJwk(9)
    /\ ~lab.out.ok
    /\ lab.imported = {PrivateKey(9, FALSE, {"sign"})}

\* A coordinate as a big-endian value of 48 bytes: the last 48 bytes of a
\* longer one, zero bytes before a shorter one.
Field48(bytes) ==
    [i \in 1..48 |->
        IF Len(bytes) >= 48 THEN bytes[Len(bytes) - 48 + i]
        ELSE IF i <= 48 - Len(bytes) THEN 0
        ELSE bytes[i - (48 - Len(bytes))]]

\* C25: the point extractPublicKeyFromJWK builds from a JWK with x and y
\* has 97 bytes: 0x04, then x and then y, each as 48 bytes, a shorter
\* coordinate with zero bytes before it and a longer one cut to its last
\* 48 bytes.
C25_UncompressedPointEncoding ==
    (/\ lab.fn = "extractPublicKeyFromJWK"
     /\ JwkBytes(lab.arg, "x") # <<>>
     /\ JwkBytes(lab.arg, "y") # <<>>)
    => /\ lab.out.ok
       /\ Len(lab.out.val) = 97
       /\ lab.out.val[1] = 4
       /\ SubSeq(lab.out.val, 2, 49) = Field48(JwkBytes(lab.arg, "x"))
       /\ SubSeq(lab.out.val, 50, 97) = Field48(JwkBytes(lab.arg, "y"))

C25_Witness ==
    /\ lab.fn = "extractPublicKeyFromJWK"
    /\ JwkBytes(lab.arg, "x") = XBytes(47)
    /\ JwkBytes(lab.arg, "y") = YBytes(66)
    /\ lab.out.ok
    /\ lab.out.val[2] = 0
    /\ lab.out.val[3] = 1
    /\ lab.out.val[50] = 119

\* The public point of the key pair with the private scalar d of a JWK.
PointOfScalar(jwk) ==
    LET k == CHOOSE k \in KeyPairs : JwkBytes(jwk, "d") = ScalarD(k)
    IN  <<4>> \o PointX(k) \o PointY(k)

\* C26: the point extracted from a JWK is the public point of its private
\* scalar d, whatever x and y the JWK carries.
C26_DerivedFromScalar ==
    (/\ lab.fn = "extractPublicKeyFromJWK"
     /\ \E k \in KeyPairs : JwkBytes(lab.arg, "d") = ScalarD(k))
    => /\ lab.out.ok
       /\ lab.out.val = PointOfScalar(lab.arg)

\* For the JWK of a generated key pair the extracted point is the public
\* point of the pair.
NativePointAgrees ==
    (lab.fn = "extractPublicKeyFromJWK" /\ \E k \in KeyPairs : lab.arg = PrivateJwk(k))
    => /\ lab.out.ok
       /\ lab.out.val = PointOfScalar(lab.arg)

\* The payload of the wrapping at hand records the salt and the IV the
\* call drew, and its cipher text is the JWK of the key encrypted under the
\* key derived from the password and that salt, with that IV.
WrapRecordsItsDraws ==
    backup.stage \in {"wrapped", "unwrapped"}
    => /\ PayloadBytes(backup.payload, "salt") = [ok |-> TRUE, val |-> backup.salt]
       /\ PayloadBytes(backup.payload, "iv") = [ok |-> TRUE, val |-> backup.iv]
       /\ PayloadBytes(backup.payload, "cipherText")
            = subtleWrapKey(backup.key,
                            deriveKeyFromPassword(backup.password, backup.salt),
                            backup.iv)

\* What unwrapping gives is what crypto.subtle.unwrapKey gives for the
\* cipher text of the payload, the key derived from the supplied password
\* and the recorded salt, and the recorded IV.
UnwrapUsesRecordedValues ==
    backup.stage = "unwrapped"
    => backup.out
        = subtleUnwrapKey(PayloadBytes(backup.payload, "cipherText").val,
                          deriveKeyFromPassword(backup.with, backup.salt),
                          backup.iv,
                          [name |-> JStr(Str("ECDSA")), namedCurve |-> JStr(Str("P-384"))],
                          TRUE, {"sign"})

\* C27: wrap records in the payload the salt and the IV it drew, unwrap
\* derives the key from the recorded salt and decrypts with the recorded
\* IV, and unwrap leaves the payload as it was.
C27_SaltAndIvOfThePayload ==
    /\ [](WrapRecordsItsDraws /\ UnwrapUsesRecordedValues)
    /\ [][backup'.stage = "unwrapped"
            => /\ backup'.payload = backup.payload
               /\ backup'.salt = backup.salt
               /\ backup'.iv = backup.iv]_vars

\* A wrapping that drew the second salt and the second IV was unwrapped
\* with its password.
C27_Witness ==
    /\ backup.stage = "unwrapped"
    /\ backup.salt = Repeat(18, 16)
    /\ backup.iv = Repeat(52, 12)
    /\ backup.with = backup.password
    /\ backup.out.ok

\* C28: whenever the key store holds both userPrivateKey and
\* userPublicKey, the two are the keys of one key pair.
C28_StoredKeysOfOnePair ==
    (~Missing(loadKey(idb, PRIVATE_KEY_NAME)) /\ ~Missing(loadKey(idb, PUBLIC_KEY_NAME)))
    => loadKey(idb, PRIVATE_KEY_NAME).pair = loadKey(idb, PUBLIC_KEY_NAME).pair

\* The test signature of signAndVerify: made with the private key, verified
\* under the public key, over the fixed text.
TestSignatureVerifies(privateKey, publicKey) ==
    LET outcome == signAndVerify(privateKey, publicKey)
    IN  outcome.ok /\ outcome.val

\* C29: the step of onMount and the step of initiateUserImportProcess that
\* follow signAndVerify enter userReady only if the test signature made with
\* the private key verifies under the public key, and enter the error step
\* when it does not.
C29_ReadyOnlyIfVerified ==
    [][((authFlow.mounting = "signAndVerify" /\ authFlow'.mounting = "done")
        \/ (authFlow.importing.pc = "signAndVerify" /\ authFlow'.importing.pc = "idle"))
       => IF TestSignatureVerifies(authFlow.userPrivateKey, authFlow.userPublicKey)
          THEN authFlow'.currentStep = "userReady"
          ELSE authFlow'.currentStep = "error"]_vars

\* The key store holds both keys of an identity.
IdentityInstalled ==
    /\ ~Missing(loadKey(idb, PRIVATE_KEY_NAME))
    /\ ~Missing(loadKey(idb, PUBLIC_KEY_NAME))

\* AuthFlow shows userReady or qrExport only while the key store holds both
\* keys.
AuthFlowReadyOnlyWithBothKeys ==
    authFlow.currentStep \in {"userReady", "qrExport"} => IdentityInstalled

\* The onMount of LoginFlow that has loaded the two keys and found one
\* absent ends in accountCreationRequired, having made no trust lookup and
\* issued no token.
LoginFlowWithoutKeysAsksForAccount ==
    [][(loginFlow.pc = "mount:loadPublic"
        /\ loginFlow'.pc # "mount:loadPublic"
        /\ loginFlow'.currentStep # "error"
        /\ (Missing(loginFlow.privateKey) \/ Missing(loadKey(idb, PUBLIC_KEY_NAME))))
       => /\ loginFlow'.currentStep = "accountCreationRequired"
          /\ loginFlow'.pc = "idle"
          /\ loginFlow'.effects \cap {"isCallbackUrlTrusted", "sign"} = {}
          /\ loginFlow'.jwtToken = <<>>
          /\ redirected' = redirected]_vars

\* C30: AuthFlow is in userReady or qrExport only while the key store holds
\* both keys, and the onMount of LoginFlow that finds a key absent enters
\* accountCreationRequired without a trust lookup and without a token.
C30_InstalledOnlyWithBothKeys ==
    []AuthFlowReadyOnlyWithBothKeys /\ LoginFlowWithoutKeysAsksForAccount

C30_Witness ==
    /\ loginFlow.currentStep = "accountCreationRequired"
    /\ "loadKey" \in loginFlow.effects
    /\ Missing(loginFlow.privateKey) \/ Missing(loginFlow.publicKey)
    /\ authFlow.currentStep = "qrExport"
    /\ IdentityInstalled

\* The pending unwrapAndImportKeysFromPayload of the import fails: the text
\* is no JSON, the password is wrong or the payload corrupted, or the
\* unwrapped key is rejected by importJwkAsKeys.
ImportUnwrapFails ==
    /\ authFlow.importing.pc = "unwrap"
    /\ ~ImportedKeys[authFlow.importing.wrapped, authFlow.importing.password].ok

\* C31: an import whose unwrapAndImportKeysFromPayload fails ends in the
\* error step, and the step that ends it leaves userPrivateKey and
\* userPublicKey of the key store as they were; the import has written
\* nothing before it.
C31_FailedImportKeepsIdentity ==
    /\ [](authFlow.importing.pc = "unwrap" => authFlow.importing.wrote = 0)
    /\ [][(ImportUnwrapFails /\ authFlow'.importing.pc # "unwrap")
          => /\ authFlow'.currentStep = "error"
             /\ authFlow'.importing = Idle
             /\ idb'.keys = idb.keys]_vars

\* An identity is installed, the component holds no key (its loadKey was
\* rejected), and an import has failed before any key was assigned.
C31_Witness ==
    /\ IdentityInstalled
    /\ authFlow.currentStep = "error"
    /\ authFlow.errorMessage = "ImportFailed"
    /\ Missing(authFlow.userPrivateKey)
    /\ installs.attempts = 1

\* A step of the LoginFlow instance that is mounted, as opposed to the
\* mounting of a new one.
SameLoginInstance == loginFlow'.pc # "onMount"

LoginCancelled ==
    /\ loginFlow.currentStep = "error"
    /\ loginFlow.errorMessage = "Cancelled"

\* C33: handleCancel moves LoginFlow from awaitingConfirmation to the error
\* step and changes neither the trusted callbacks nor the key store, and no
\* token is issued; the callback is still untrusted after it, the page loaded
\* again has the same parameters and stores, and a mount that finds the
\* callback untrusted asks for confirmation.
C33_CancelChangesOnlyTheStep ==
    /\ [][(~LoginCancelled /\ LoginCancelled')
          => /\ loginFlow.currentStep = "awaitingConfirmation"
             /\ loginFlow' = Failed(loginFlow, "Cancelled")
             /\ idb' = idb
             /\ redirected' = redirected]_vars
    /\ [](LoginCancelled => ~CallbackTrusted /\ NothingIssued)
    /\ [][(LoginCancelled /\ ~SameLoginInstance)
          => /\ loginFlow' = MountedLoginFlow(loginFlow.rawCallbackParam,
                                              loginFlow.loginPayloadData)
             /\ idb' = idb]_vars
    /\ [][(~CallbackTrusted /\ loginFlow.pc = "mount:isTrusted"
                /\ loginFlow'.currentStep # "error")
          => loginFlow'.currentStep = "awaitingConfirmation"]_vars

\* The prompt was cancelled with an identity installed and nothing trusted.
C33_Witness ==
    /\ LoginCancelled
    /\ IdentityInstalled
    /\ idb.trusted = {}
    /\ "isCallbackUrlTrusted" \in loginFlow.effects

(***************************************************************************)
(* The scan loop: claim C34                                                *)
(***************************************************************************)

\* The frame animationFrameId names is scheduled and the stream mediaStream
\* refers to is live; the counts stay within the bound.
CameraAccounted ==
    /\ camera.requests \in 0..MaxCameraRequests
    /\ camera.streams \in 0..MaxCameraRequests
    /\ camera.frames \in 0..MaxCameraRequests
    /\ authFlow.animationFrameId => camera.frames > 0
    /\ authFlow.mediaStream => camera.streams > 0

\* C34: never more than one frame callback is scheduled and never more than
\* one media stream is live, and a scheduled frame is the one
\* animationFrameId names.
C34_OneScanLoop ==
    /\ camera.frames <= 1
    /\ camera.streams <= 1
    /\ camera.frames = 1 => authFlow.animationFrameId

(***************************************************************************)
(* The verifier and the sub claim: claim C35                               *)
(***************************************************************************)

\* The token issued as jwt was, by the same key at the same moment with the
\* same custom data, for the callback URL url.
SiblingToken(url) ==
    createSignedLoginToken(OperationalKey(meta.signer), PublicKey(meta.signer),
                           url, meta.custom, meta.iat).val

\* What verifyLoginJWT answers for the sibling of jwt, called as the last
\* call was.
SiblingOutcome(url) == verifyLoginJWT(SiblingToken(url), PublicKey(call.key), call.at)

LoadingOnlyInFlight ==
    authFlow.currentStep = "loading"
        => \/ authFlow.mounting # "done"
           \/ InFlight(authFlow.creating)
           \/ InFlight(authFlow.importing)

\* LoginFlow shows a loader and has not left the page.
LoginTransient ==
    /\ loginFlow.pc \notin {"unmounted", "done"}
    /\ loginFlow.currentStep \in {"loading", "processingLogin"}

\* LoginFlow waits for the user, has failed, or has sent the browser to the
\* callback.
LoginSettled ==
    \/ loginFlow.currentStep \in {"awaitingConfirmation", "accountCreationRequired", "error"}
    \/ loginFlow.pc = "done" /\ redirected.type = "replace"

AuthTransient == authFlow.mounting # "unmounted" /\ authFlow.currentStep = "loading"

AuthSettled == authFlow.currentStep \in {"initial", "userReady", "qrExport", "error"}

\* C36: when every awaited operation settles, LoginFlow in the step
\* 'loading' or 'processingLogin' reaches awaitingConfirmation,
\* accountCreationRequired, error or the redirect, and AuthFlow in the step
\* 'loading' reaches initial, userReady, qrExport or error.
C36_TransientStepsEnd ==
    /\ LoginTransient ~> LoginSettled
    /\ AuthTransient ~> AuthSettled

\* A creation that was begun while a camera request was pending has ended in
\* the qrExport step, after the rejected request had taken the flow out of
\* 'loading' and an import had been started beside it.
C36_Witness ==
    /\ authFlow.currentStep = "qrExport"
    /\ authFlow.qrScanError = "NoCamera"
    /\ installs.attempts = 2
    /\ ~InFlight(authFlow.creating)
    /\ InFlight(authFlow.importing)

\* A creation or an import ends in this step: its finally block has run.
AttemptFinishes ==
    \/ InFlight(authFlow.creating) /\ ~InFlight(authFlow'.creating)
    \/ InFlight(authFlow.importing) /\ ~InFlight(authFlow'.importing)

\* The steps that show the password field, and the scan step before the
\* second of them.
PasswordSteps == {"enterPasswordForCreate", "qrScanForImport", "enterWrappedKeyForImport"}

\* The flow comes to the create-password step or to an import step from a
\* step that is not an import step.
EntersPasswordStep ==
    /\ authFlow'.currentStep \in PasswordSteps
    /\ authFlow.currentStep # authFlow'.currentStep
    /\ ~(authFlow.currentStep = "qrScanForImport"
         /\ authFlow'.currentStep = "enterWrappedKeyForImport")

\* passwordInput is empty when a creation or an import has ended.
PasswordClearedAtEnd == [][AttemptFinishes => authFlow'.passwordInput = <<>>]_vars

\* C37: passwordInput is empty when a creation or an import attempt has
\* finished, with success or with failure, and when the flow enters the
\* create-password step or an import step.
C37_PasswordNotKept ==
    [][(AttemptFinishes \/ EntersPasswordStep) => authFlow'.passwordInput = <<>>]_vars

====
